---- MODULE Spec2Model ----
(***************************************************************************)
(* The quote-aware SQL statement splitter and the structural validators of *)
(* the d1-rest migration scripts.                                          *)
(*                                                                         *)
(* Text is a sequence of one-character strings.  The splitter loop of      *)
(* validate_migration_improved.py / test_d1_inserts.py is ScanStep, taken  *)
(* one character at a time by ScanChar (specification Spec) or run over    *)
(* the whole file by SplitContent (specification SpecValidate).            *)
(* A finding "Statement 3: Unbalanced quotes (5 quotes)" is the record     *)
(* [num |-> 3, msg |-> "Unbalanced quotes", args |-> <<5>>].               *)
(* SpecRun is a whole run of a validator script (the file may be missing), *)
(* SpecBatches the batch executor execute_migration_batches.py and         *)
(* SpecRest the batch loop of migrate_videos_rest_api.py.  SpecSqlFile is  *)
(* the row loop of migrate_videos_to_d1.py, which writes the generated     *)
(* statements to a file; SpecSemicolons and SpecQuotes are the fixers      *)
(* fix_sql_semicolons.py and fix_sql_quotes.py.                            *)
(***************************************************************************)
EXTENDS Naturals, Sequences, FiniteSets

VARIABLES
    script,             \* which script's function is running
    content,            \* f.read(): the text of the input file
    pos,                \* index of the next character `for char in content` reads
    current_statement,  \* the splitter's buffer
    in_string,          \* inside a single-quoted literal
    escape_next,        \* the previous character was an active backslash
    statements,         \* the statements split so far
    pc,                 \* "scan", "validate", "done": the loop that is running
    stmt_num,           \* enumerate(..., 1) index of the next statement / line
    statement_count,    \* statement_count (line_count in validate_fixed_sql.py)
    errors,             \* the errors list
    warnings,           \* the warnings list (test_d1_inserts.py)
    file_exists,        \* the input file is there when the script opens it
    exit_code,          \* the exit status of the process, once pc = "exited"
    batch_start,        \* `i` of range(0, len(...), batch_size): the next batch
    batch_size,         \* batch_size
    success_count,      \* execute_migration_batches.py: success_count
    executed,           \* the calls of execute_batch made so far, in order
    videos,             \* the rows fetched from the source database
    stats,              \* self.stats (migrate_videos_to_d1.py: successful, failed)
    sleeps,             \* the calls of time.sleep(0.5) made so far
    fixed_lines,        \* fix_sql_semicolons.py, fix_sql_quotes.py: fixed_lines
    in_values,          \* fix_sql_quotes.py: in_values
    output              \* the text a fixer writes to its output file

vars == <<script, content, pos, current_statement, in_string, escape_next,
          statements, pc, stmt_num, statement_count, errors, warnings,
          file_exists, exit_code, batch_start, batch_size, success_count, executed,
          videos, stats, sleeps, fixed_lines, in_values, output>>

\* the state of a script run around its validation function
runVars == <<file_exists, exit_code>>

\* the state of the batch executor
batchVars == <<batch_start, batch_size, success_count, executed>>

\* the state of the REST migration
restVars == <<videos, stats, sleeps>>

\* the state of a fixer script
fixVars == <<fixed_lines, in_values, output>>

----------------------------------------------------------------------------
(* Bounds of the checked inputs.                                           *)

MaxChars == 5

MaxBody == 2

\* the largest number of statements the batch executor is given
MaxStatements == 151

\* the largest number of rows the REST migration fetches
MaxVideos == 4

\* the largest batch size the REST migration is started with
MaxBatchSize == 3

\* the largest number of rows the SQL-file migration reads
MaxRows == 3

\* the largest number of lines in a file given to the semicolon fixer
MaxLines == 2

\* the largest number of statements and blank lines in a file given to the
\* quote fixer
MaxItems == 2

----------------------------------------------------------------------------
(* Characters and literals of the source.                                  *)

SQ == "'"

BS == "\\"

SEMI == ";"

NL == "\n"

\* the whitespace characters of the checked alphabets (str.strip() removes them)
Whitespace == {" ", "\n"}

INSERT_INTO_VIDEOS == <<"I","N","S","E","R","T"," ","I","N","T","O"," ","v","i","d","e","o","s">>

INSERT_INTO_VIDEOS_PAREN == INSERT_INTO_VIDEOS \o <<" ", "(">>

VALUES == <<"V","A","L","U","E","S">>

VALUES_PAREN == VALUES \o <<" ", "(">>

EMPTY_FIELDS == <<"'","'",","," ","'","'",","," ","'","'",","," ","'","'">>

----------------------------------------------------------------------------
(* Python string operations.                                               *)

RECURSIVE LStrip(_)
LStrip(s) ==
    IF s # <<>> /\ Head(s) \in Whitespace THEN LStrip(Tail(s)) ELSE s

RECURSIVE RStrip(_)
RStrip(s) ==
    IF s # <<>> /\ s[Len(s)] \in Whitespace
    THEN RStrip(SubSeq(s, 1, Len(s) - 1))
    ELSE s

\* str.strip()
Strip(s) == LStrip(RStrip(s))

\* str.startswith(p)
StartsWith(s, p) == Len(s) >= Len(p) /\ SubSeq(s, 1, Len(p)) = p

\* str.endswith(p)
EndsWith(s, p) ==
    Len(s) >= Len(p) /\ SubSeq(s, Len(s) - Len(p) + 1, Len(s)) = p

\* the positions at which p occurs in s
Occurrences(s, p) ==
    {i \in 1..(Len(s) + 1 - Len(p)) : SubSeq(s, i, i + Len(p) - 1) = p}

\* p in s
Contains(s, p) == Occurrences(s, p) # {}

\* s.count(c) for a single character c
CountChar(s, c) == Cardinality({i \in 1..Len(s) : s[i] = c})

\* one position of the left-to-right search of s.count(p): an occurrence
\* counts when it starts at or after the end of the last one counted
CountStep(c, s, p, i) ==
    IF i >= c.from /\ i \in Occurrences(s, p)
    THEN [from |-> i + Len(p), n |-> c.n + 1]
    ELSE c

\* the search over the positions lo..hi of s: the first half of the range,
\* then (its result in hand) the second half
RECURSIVE CountFrom(_, _, _, _, _)
CountFrom(c, s, p, lo, hi) ==
    IF lo > hi THEN c
    ELSE IF lo = hi THEN CountStep(c, s, p, lo)
    ELSE LET first == CountFrom(c, s, p, lo, (lo + hi) \div 2) IN
         IF first.n >= c.n
         THEN CountFrom(first, s, p, (lo + hi) \div 2 + 1, hi)
         ELSE first

\* s.count(p): non-overlapping occurrences, left to right
CountSub(s, p) == CountFrom([from |-> 1, n |-> 0], s, p, 1, Len(s)).n

----------------------------------------------------------------------------
(* The splitter loop body (one character).                                 *)

Splitters == {"validate_migration_improved", "test_d1_inserts"}

ScanState(cur, ins, esc, stmts) ==
    [current_statement |-> cur, in_string |-> ins,
     escape_next |-> esc, statements |-> stmts]

\* what statements.append does at a split point; test_d1_inserts.py guards
\* the append with `if current_statement.strip()`
Emit(scr, stmts, cur) ==
    IF scr = "test_d1_inserts" /\ Strip(cur) = <<>>
    THEN stmts
    ELSE Append(stmts, Strip(cur))

\* a scanner that splits at every semicolon, quoted or not
ScanStepNoQuotes(scr, st, char) ==
    LET cur == Append(st.current_statement, char) IN
    IF st.escape_next
    THEN ScanState(cur, st.in_string, FALSE, st.statements)
    ELSE IF char = BS
    THEN ScanState(cur, st.in_string, TRUE, st.statements)
    ELSE LET ins == IF char = SQ THEN ~st.in_string ELSE st.in_string IN
         IF char = SEMI
         THEN ScanState(<<>>, ins, FALSE, Emit(scr, st.statements, cur))
         ELSE ScanState(cur, ins, FALSE, st.statements)

\* a scanner without the escape_next branch: the character after a backslash
\* is interpreted like any other
ScanStepNoEscape(scr, st, char) ==
    LET cur == Append(st.current_statement, char)
        ins == IF char = SQ THEN ~st.in_string ELSE st.in_string IN
    IF char = SEMI /\ ~ins
    THEN ScanState(<<>>, ins, FALSE, Emit(scr, st.statements, cur))
    ELSE ScanState(cur, ins, FALSE, st.statements)

\* a scanner that drops the statement before the one it appends
ScanStepDropping(scr, st, char) ==
    LET cur == Append(st.current_statement, char) IN
    IF st.escape_next
    THEN ScanState(cur, st.in_string, FALSE, st.statements)
    ELSE IF char = BS
    THEN ScanState(cur, st.in_string, TRUE, st.statements)
    ELSE LET ins == IF char = SQ THEN ~st.in_string ELSE st.in_string IN
         IF char = SEMI /\ ~ins
         THEN ScanState(<<>>, ins, FALSE, <<Strip(cur)>>)
         ELSE ScanState(cur, ins, FALSE, st.statements)

\* a scanner that appends the untrimmed buffer
ScanStepUntrimmed(scr, st, char) ==
    LET cur == Append(st.current_statement, char) IN
    IF st.escape_next
    THEN ScanState(cur, st.in_string, FALSE, st.statements)
    ELSE IF char = BS
    THEN ScanState(cur, st.in_string, TRUE, st.statements)
    ELSE LET ins == IF char = SQ THEN ~st.in_string ELSE st.in_string IN
         IF char = SEMI /\ ~ins
         THEN ScanState(<<>>, ins, FALSE, Append(st.statements, cur))
         ELSE ScanState(cur, ins, FALSE, st.statements)

\* a scanner for which a backslash is an escape only inside a literal
ScanStepEscapeInLiteral(scr, st, char) ==
    LET cur == Append(st.current_statement, char) IN
    IF st.escape_next
    THEN ScanState(cur, st.in_string, FALSE, st.statements)
    ELSE IF char = BS /\ st.in_string
    THEN ScanState(cur, st.in_string, TRUE, st.statements)
    ELSE LET ins == IF char = SQ THEN ~st.in_string ELSE st.in_string IN
         IF char = SEMI /\ ~ins
         THEN ScanState(<<>>, ins, FALSE, Emit(scr, st.statements, cur))
         ELSE ScanState(cur, ins, FALSE, st.statements)

\* a scanner that takes a quote right after a quote for the second half of
\* a doubled quote and does not toggle on it
ScanStepDoubledQuote(scr, st, char) ==
    LET cur == Append(st.current_statement, char)
        prev == st.current_statement IN
    IF st.escape_next
    THEN ScanState(cur, st.in_string, FALSE, st.statements)
    ELSE IF char = BS
    THEN ScanState(cur, st.in_string, TRUE, st.statements)
    ELSE LET ins == IF char = SQ /\ ~(prev # <<>> /\ prev[Len(prev)] = SQ)
                    THEN ~st.in_string ELSE st.in_string IN
         IF char = SEMI /\ ~ins
         THEN ScanState(<<>>, ins, FALSE, Emit(scr, st.statements, cur))
         ELSE ScanState(cur, ins, FALSE, st.statements)

\* for char in content: ... (the body of the loop)
ScanStep(scr, st, char) ==
    LET cur == Append(st.current_statement, char) IN
    IF st.escape_next
    THEN ScanState(cur, st.in_string, FALSE, st.statements)
    ELSE IF char = BS
    THEN ScanState(cur, st.in_string, TRUE, st.statements)
    ELSE LET ins == IF char = SQ THEN ~st.in_string ELSE st.in_string IN
         IF char = SEMI /\ ~ins
         THEN ScanState(<<>>, ins, FALSE, Emit(scr, st.statements, cur))
         ELSE ScanState(cur, ins, FALSE, st.statements)

ScanInit == ScanState(<<>>, FALSE, FALSE, <<>>)

\* the loop over the characters lo..hi of text: the first half of the
\* range, then (its result in hand) the second half
RECURSIVE ScanFrom(_, _, _, _, _)
ScanFrom(scr, st, text, lo, hi) ==
    IF lo > hi THEN st
    ELSE IF lo = hi THEN ScanStep(scr, st, text[lo])
    ELSE LET first == ScanFrom(scr, st, text, lo, (lo + hi) \div 2) IN
         IF first.in_string \in BOOLEAN
         THEN ScanFrom(scr, first, text, (lo + hi) \div 2 + 1, hi)
         ELSE first

\* the whole splitter loop: the statements list it leaves
SplitStatements(scr, text) ==
    ScanFrom(scr, ScanInit, text, 1, Len(text)).statements

----------------------------------------------------------------------------
(* validate_migration_improved.py: the checks made on one statement.       *)

Err(n, msg, args) == [num |-> n, msg |-> msg, args |-> args]

\* a quote count that ignores backslashes, as line.count("'") does
RealQuotesRaw(statement) == CountChar(statement, SQ)

\* a quote loop for which a backslash is an ordinary character
QuoteStepNoEscape(q, i, char) ==
    IF char = SQ
    THEN [escape_next |-> FALSE,
          quote_positions |-> Append(q.quote_positions, i)]
    ELSE q

\* for i, char in enumerate(statement): ... (the body of the quote loop)
QuoteStep(q, i, char) ==
    IF q.escape_next
    THEN [escape_next |-> FALSE, quote_positions |-> q.quote_positions]
    ELSE IF char = BS
    THEN [escape_next |-> TRUE, quote_positions |-> q.quote_positions]
    ELSE IF char = SQ
    THEN [escape_next |-> FALSE,
          quote_positions |-> Append(q.quote_positions, i)]
    ELSE q

\* the quote loop over the characters lo..hi: the first half of the range,
\* then (its result in hand) the second half
RECURSIVE QuotePositionsFrom(_, _, _, _)
QuotePositionsFrom(q, statement, lo, hi) ==
    IF lo > hi THEN q
    ELSE IF lo = hi THEN QuoteStep(q, lo, statement[lo])
    ELSE LET first == QuotePositionsFrom(q, statement, lo, (lo + hi) \div 2)
         IN  IF first.escape_next \in BOOLEAN
             THEN QuotePositionsFrom(first, statement,
                                     (lo + hi) \div 2 + 1, hi)
             ELSE first

\* real_quotes = len(quote_positions)
RealQuotes(statement) ==
    Len(QuotePositionsFrom([escape_next |-> FALSE, quote_positions |-> <<>>],
                           statement, 1, Len(statement)).quote_positions)

\* a validator that goes on to the other checks after "Not an INSERT statement"
StatementErrorsNoContinue(n, statement) ==
    LET open_parens == CountChar(statement, "(")
        close_parens == CountChar(statement, ")")
        real_quotes == RealQuotes(statement) IN
    (IF ~StartsWith(Strip(statement), INSERT_INTO_VIDEOS)
     THEN <<Err(n, "Not an INSERT statement", <<>>)>> ELSE <<>>)
    \o (IF ~StartsWith(Strip(statement), INSERT_INTO_VIDEOS_PAREN)
        THEN <<Err(n, "Invalid INSERT syntax", <<>>)>> ELSE <<>>)
    \o (IF ~Contains(statement, VALUES_PAREN)
        THEN <<Err(n, "Missing VALUES clause", <<>>)>> ELSE <<>>)
    \o (IF open_parens # close_parens
        THEN <<Err(n, "Unbalanced parentheses", <<open_parens, close_parens>>)>>
        ELSE <<>>)
    \o (IF real_quotes % 2 # 0
        THEN <<Err(n, "Unbalanced quotes", <<real_quotes>>)>> ELSE <<>>)
    \o (IF Contains(statement, EMPTY_FIELDS)
        THEN <<Err(n, "Contains multiple empty fields", <<>>)>> ELSE <<>>)
    \o (IF CountSub(statement, VALUES) # 1
        THEN <<Err(n, "Should have exactly one VALUES clause", <<>>)>>
        ELSE <<>>)

\* a validator that flags any statement in which VALUES occurs at all
StatementErrorsAnyValues(n, statement) ==
    StatementErrorsNoContinue(n, statement)
    \o (IF CountSub(statement, VALUES) = 1
        THEN <<Err(n, "Should have exactly one VALUES clause", <<>>)>>
        ELSE <<>>)

\* a validator that reports the first defect of a statement and goes on to
\* the next statement
StatementErrorsFirstOnly(n, statement) ==
    IF ~StartsWith(Strip(statement), INSERT_INTO_VIDEOS)
    THEN <<Err(n, "Not an INSERT statement", <<>>)>>
    ELSE IF ~StartsWith(Strip(statement), INSERT_INTO_VIDEOS_PAREN)
    THEN <<Err(n, "Invalid INSERT syntax", <<>>)>>
    ELSE IF ~Contains(statement, VALUES_PAREN)
    THEN <<Err(n, "Missing VALUES clause", <<>>)>>
    ELSE IF CountChar(statement, "(") # CountChar(statement, ")")
    THEN <<Err(n, "Unbalanced parentheses",
               <<CountChar(statement, "("), CountChar(statement, ")")>>)>>
    ELSE IF RealQuotes(statement) % 2 # 0
    THEN <<Err(n, "Unbalanced quotes", <<RealQuotes(statement)>>)>>
    ELSE IF Contains(statement, EMPTY_FIELDS)
    THEN <<Err(n, "Contains multiple empty fields", <<>>)>>
    ELSE IF CountSub(statement, VALUES) # 1
    THEN <<Err(n, "Should have exactly one VALUES clause", <<>>)>>
    ELSE <<>>

\* a validator that looks at the number of VALUES before the empty fields
StatementErrorsValuesFirst(n, statement) ==
    IF ~StartsWith(Strip(statement), INSERT_INTO_VIDEOS)
    THEN <<Err(n, "Not an INSERT statement", <<>>)>>
    ELSE
      LET open_parens == CountChar(statement, "(")
          close_parens == CountChar(statement, ")")
          real_quotes == RealQuotes(statement) IN
      (IF ~StartsWith(Strip(statement), INSERT_INTO_VIDEOS_PAREN)
       THEN <<Err(n, "Invalid INSERT syntax", <<>>)>> ELSE <<>>)
      \o (IF ~Contains(statement, VALUES_PAREN)
          THEN <<Err(n, "Missing VALUES clause", <<>>)>> ELSE <<>>)
      \o (IF open_parens # close_parens
          THEN <<Err(n, "Unbalanced parentheses",
                     <<open_parens, close_parens>>)>>
          ELSE <<>>)
      \o (IF real_quotes % 2 # 0
          THEN <<Err(n, "Unbalanced quotes", <<real_quotes>>)>> ELSE <<>>)
      \o (IF CountSub(statement, VALUES) # 1
          THEN <<Err(n, "Should have exactly one VALUES clause", <<>>)>>
          ELSE <<>>)
      \o (IF Contains(statement, EMPTY_FIELDS)
          THEN <<Err(n, "Contains multiple empty fields", <<>>)>> ELSE <<>>)

\* the errors one iteration of `for stmt_num, statement in enumerate(...)`
\* appends, in the order it appends them
StatementErrors(n, statement) ==
    IF ~StartsWith(Strip(statement), INSERT_INTO_VIDEOS)
    THEN <<Err(n, "Not an INSERT statement", <<>>)>>
    ELSE
      LET open_parens == CountChar(statement, "(")
          close_parens == CountChar(statement, ")")
          real_quotes == RealQuotes(statement) IN
      (IF ~StartsWith(Strip(statement), INSERT_INTO_VIDEOS_PAREN)
       THEN <<Err(n, "Invalid INSERT syntax", <<>>)>> ELSE <<>>)
      \o (IF ~Contains(statement, VALUES_PAREN)
          THEN <<Err(n, "Missing VALUES clause", <<>>)>> ELSE <<>>)
      \o (IF open_parens # close_parens
          THEN <<Err(n, "Unbalanced parentheses",
                     <<open_parens, close_parens>>)>>
          ELSE <<>>)
      \o (IF real_quotes % 2 # 0
          THEN <<Err(n, "Unbalanced quotes", <<real_quotes>>)>> ELSE <<>>)
      \o (IF Contains(statement, EMPTY_FIELDS)
          THEN <<Err(n, "Contains multiple empty fields", <<>>)>> ELSE <<>>)
      \o (IF CountSub(statement, VALUES) # 1
          THEN <<Err(n, "Should have exactly one VALUES clause", <<>>)>>
          ELSE <<>>)

----------------------------------------------------------------------------
(* test_d1_inserts.py: analyze_insert_statements on one statement.         *)

ExpectedColumns == 12

SetMin(S) == CHOOSE x \in S : \A y \in S : x <= y

SetMax(S) == CHOOSE x \in S : \A y \in S : x >= y

ClosersAfter(stmt, k) == {j \in (k + 1)..Len(stmt) : stmt[j] = ")"}

\* re.search(r'INSERT INTO videos \(([^)]+)\)', stmt): the start positions at
\* which the pattern matches; k is the position of the opening parenthesis
ColumnsMatches(stmt) ==
    {i \in Occurrences(stmt, INSERT_INTO_VIDEOS_PAREN) :
        LET k == i + Len(INSERT_INTO_VIDEOS_PAREN) - 1 IN
        /\ ClosersAfter(stmt, k) # {}
        /\ SetMin(ClosersAfter(stmt, k)) >= k + 2}

\* columns_match.group(1) of the leftmost match
ColumnsGroup(stmt) ==
    LET k == SetMin(ColumnsMatches(stmt)) + Len(INSERT_INTO_VIDEOS_PAREN) - 1
    IN  SubSeq(stmt, k + 1, SetMin(ClosersAfter(stmt, k)) - 1)

\* the position of the first character after VALUES and \s*, from position i
RECURSIVE SkipSpace(_, _)
SkipSpace(stmt, i) ==
    IF i <= Len(stmt) /\ stmt[i] \in Whitespace
    THEN SkipSpace(stmt, i + 1) ELSE i

\* re.search(r'VALUES\s*\((.*)\)', stmt, re.DOTALL): the start positions at
\* which the pattern matches
ValuesMatches(stmt) ==
    {i \in Occurrences(stmt, VALUES) :
        LET k == SkipSpace(stmt, i + Len(VALUES)) IN
        /\ k <= Len(stmt)
        /\ stmt[k] = "("
        /\ ClosersAfter(stmt, k) # {}}

\* values_match.group(1): (.*) is greedy, up to the last closing parenthesis
ValuesGroup(stmt) ==
    LET k == SkipSpace(stmt, SetMin(ValuesMatches(stmt)) + Len(VALUES)) IN
    SubSeq(stmt, k + 1, SetMax(ClosersAfter(stmt, k)) - 1)

\* an analysis that never warns about a missing column list
AnalyzeWarningsSilent(i, stmt) ==
    IF Contains(stmt, INSERT_INTO_VIDEOS_PAREN) /\ ColumnsMatches(stmt) # {}
    THEN LET columns == CountChar(ColumnsGroup(stmt), ",") + 1 IN
         IF columns # ExpectedColumns
         THEN <<Err(i, "Expected columns, got", <<ExpectedColumns, columns>>)>>
         ELSE <<>>
    ELSE <<>>

\* the warnings one iteration of `for i, stmt in enumerate(statements, 1)`
\* appends
AnalyzeWarnings(i, stmt) ==
    IF Contains(stmt, INSERT_INTO_VIDEOS_PAREN)
    THEN IF ColumnsMatches(stmt) # {}
         THEN LET columns == CountChar(ColumnsGroup(stmt), ",") + 1 IN
              IF columns # ExpectedColumns
              THEN <<Err(i, "Expected columns, got",
                         <<ExpectedColumns, columns>>)>>
              ELSE <<>>
         ELSE <<>>
    ELSE <<Err(i, "Should specify explicit column names", <<>>)>>

\* the errors the same iteration appends
AnalyzeErrors(i, stmt) ==
    IF ValuesMatches(stmt) # {}
    THEN LET values_count == CountChar(ValuesGroup(stmt), ",") + 1 IN
         IF ~Contains(stmt, INSERT_INTO_VIDEOS_PAREN)
            /\ values_count # ExpectedColumns
         THEN <<Err(i, "Expected values, got",
                    <<ExpectedColumns, values_count>>)>>
         ELSE <<>>
    ELSE <<>>

----------------------------------------------------------------------------
(* validate_fixed_sql.py: the checks made on one line of the file.         *)

\* the positions of the newlines of text
Newlines(text) == {i \in 1..Len(text) : text[i] = NL}

\* the positions at which a line of text starts
LineStarts(text) ==
    {i \in 1..Len(text) : i = 1 \/ text[i - 1] = NL}

\* the position at which the line starting at i ends (its newline, or the
\* end of the file)
LineEnd(text, i) ==
    LET nl == {j \in Newlines(text) : j >= i} IN
    IF nl = {} THEN Len(text)
    ELSE CHOOSE j \in nl : \A k \in nl : j <= k

\* for line in f: the lines of the file, each with its newline
FileLines(text) ==
    LET starts == LineStarts(text)
        nth[n \in 1..Cardinality(starts)] ==
            CHOOSE i \in starts :
                Cardinality({j \in starts : j < i}) = n - 1 IN
    [n \in 1..Cardinality(starts) |->
        SubSeq(text, nth[n], LineEnd(text, nth[n]))]

\* the errors one iteration of `for line_num, line in enumerate(f, 1)` appends
LineErrors(line_num, raw) ==
    LET line == Strip(raw) IN
    IF line = <<>> THEN <<>>
    ELSE IF ~StartsWith(line, INSERT_INTO_VIDEOS)
    THEN <<Err(line_num, "Not an INSERT statement", <<>>)>>
    ELSE (IF ~EndsWith(line, <<SEMI>>)
          THEN <<Err(line_num, "Missing semicolon", <<>>)>> ELSE <<>>)
         \o (IF CountChar(line, SQ) % 2 # 0
             THEN <<Err(line_num, "Unbalanced quotes", <<>>)>> ELSE <<>>)

----------------------------------------------------------------------------
(* validate_migration.py: the checks made on one line of the file.         *)

EMPTY_CRITICAL == <<"'", "'", ",", " ", "'", "'">>

\* the errors one iteration of `for line_num, line in enumerate(f, 1)` appends
MigrationLineErrors(line_num, raw) ==
    LET line == Strip(raw) IN
    IF line = <<>> THEN <<>>
    ELSE IF ~StartsWith(line, INSERT_INTO_VIDEOS)
    THEN <<Err(line_num, "Not an INSERT statement", <<>>)>>
    ELSE (IF ~EndsWith(line, <<SEMI>>)
          THEN <<Err(line_num, "Missing semicolon", <<>>)>> ELSE <<>>)
         \o (IF Contains(line, EMPTY_CRITICAL)
             THEN <<Err(line_num, "Contains empty critical fields", <<>>)>>
             ELSE <<>>)
         \o (IF CountChar(line, SQ) % 2 # 0
             THEN <<Err(line_num, "Unbalanced quotes", <<>>)>> ELSE <<>>)

----------------------------------------------------------------------------
(* Inputs.                                                                 *)

RECURSIVE SeqsUpTo(_, _)
SeqsUpTo(S, n) ==
    IF n = 0 THEN {<<>>}
    ELSE LET shorter == SeqsUpTo(S, n - 1) IN
         shorter \cup {Append(s, x) : s \in shorter, x \in S}

RECURSIVE Flatten(_)
Flatten(ss) == IF ss = <<>> THEN <<>> ELSE Head(ss) \o Flatten(Tail(ss))

ScanAlphabet == {SQ, SEMI, BS, " ", "a"}

ExSemicolonInLiteral == <<"I","N","S","E","R","T"," ","I","N","T","O"," ","v","i","d","e","o","s"," ","(","a",")"," ","V","A","L","U","E","S"," ","(","'","x",";","y","'",")",";">>

ExEscapedQuote == <<"I","N","S","E","R","T"," ","I","N","T","O"," ","v","i","d","e","o","s"," ","(","a",")"," ","V","A","L","U","E","S"," ","(","'","i","t","\\","'","s","'",")",";">>

ExClean == <<"I","N","S","E","R","T"," ","I","N","T","O"," ","v","i","d","e","o","s"," ","(","v","i","d","e","o","_","i","d",")"," ","V","A","L","U","E","S"," ","(","'","a","b","c","'",")",";">>

ExUnterminated == <<"I","N","S","E","R","T"," ","I","N","T","O"," ","v","i","d","e","o","s"," ","(","v","i","d","e","o","_","i","d",")"," ","V","A","L","U","E","S"," ","(","'","a","b","c","'">>

ExNoColumns == <<"I","N","S","E","R","T"," ","I","N","T","O"," ","v","i","d","e","o","s"," ","V","A","L","U","E","S"," ","(","'","a","b","c","'",")",";">>

ExColumnsInLiteral == <<"I","N","S","E","R","T"," ","I","N","T","O"," ","v","i","d","e","o","s"," ","V","A","L","U","E","S"," ","(","'","I","N","S","E","R","T"," ","I","N","T","O"," ","v","i","d","e","o","s"," ","(","'",")",";">>

ExSelect == <<"S","E","L","E","C","T"," ","1",";">>

ExOddQuotes == <<"I","N","S","E","R","T"," ","I","N","T","O"," ","v","i","d","e","o","s"," ","(","a",")"," ","V","A","L","U","E","S"," ","(","'","i","t","\\","'","s",")",";">>

Examples ==
    {ExSemicolonInLiteral, ExEscapedQuote, ExClean, ExUnterminated,
     ExNoColumns, ExColumnsInLiteral, ExSelect, ExOddQuotes}

\* the files read character by character under Spec
\* \a;'\a;  an escape outside a literal and one inside
ExEscapeBothSides == <<"\\", "a", ";", "'", "\\", "a", ";">>

ScanContents ==
    SeqsUpTo(ScanAlphabet, MaxChars) \cup Examples \cup {ExEscapeBothSides}

----------------------------------------------------------------------------
(* The program, one character and one statement at a time.                 *)

\* the validation function has been entered with its file open; the process
\* around it is not looked at
NoBatches ==
    /\ batch_size = 0
    /\ batch_start = 0
    /\ success_count = 0
    /\ executed = <<>>

NoVideos ==
    /\ videos = <<>>
    /\ stats = [total |-> 0, successful |-> 0, failed |-> 0, skipped |-> 0]
    /\ sleeps = 0

NoFix ==
    /\ fixed_lines = <<>>
    /\ in_values = FALSE
    /\ output = <<>>

InFunction ==
    /\ file_exists = TRUE
    /\ exit_code = 0
    /\ NoBatches
    /\ NoVideos
    /\ NoFix

Init ==
    /\ script \in Splitters
    /\ content \in ScanContents
    /\ pos = 1
    /\ current_statement = <<>>
    /\ in_string = FALSE
    /\ escape_next = FALSE
    /\ statements = <<>>
    /\ pc = "scan"
    /\ stmt_num = 1
    /\ statement_count = 0
    /\ errors = <<>>
    /\ warnings = <<>>
    /\ InFunction

\* one iteration of `for char in content`
ScanChar ==
    /\ pc = "scan"
    /\ pos <= Len(content)
    /\ LET st == ScanStep(script,
                          ScanState(current_statement, in_string,
                                    escape_next, statements),
                          content[pos]) IN
         /\ current_statement' = st.current_statement
         /\ in_string' = st.in_string
         /\ escape_next' = st.escape_next
         /\ statements' = st.statements
    /\ pos' = pos + 1
    /\ UNCHANGED <<runVars, batchVars, restVars>>
    /\ UNCHANGED <<script, content, pc, stmt_num, statement_count, errors,
                   warnings>>
    /\ UNCHANGED fixVars

\* the loop over content is exhausted: nothing is done with the buffer
ScanEnd ==
    /\ pc = "scan"
    /\ pos > Len(content)
    /\ pc' = "validate"
    /\ UNCHANGED <<runVars, batchVars, restVars>>
    /\ UNCHANGED <<script, content, pos, current_statement, in_string,
                   escape_next, statements, stmt_num, statement_count,
                   errors, warnings>>
    /\ UNCHANGED fixVars

\* what the loop of the running script iterates over
Items ==
    IF script \in {"validate_fixed_sql", "validate_migration"}
    THEN FileLines(content) ELSE statements

\* validate_migration_improved.py: one iteration of the statement loop
ValidateStatement ==
    /\ pc = "validate"
    /\ script = "validate_migration_improved"
    /\ stmt_num <= Len(statements)
    /\ LET statement == statements[stmt_num] IN
         IF Strip(statement) = <<>>
         THEN UNCHANGED <<statement_count, errors>>
         ELSE /\ statement_count' = statement_count + 1
              /\ errors' = errors \o StatementErrors(stmt_num, statement)
    /\ stmt_num' = stmt_num + 1
    /\ UNCHANGED <<runVars, batchVars, restVars>>
    /\ UNCHANGED <<script, content, pos, current_statement, in_string,
                   escape_next, statements, pc, warnings>>
    /\ UNCHANGED fixVars

\* test_d1_inserts.py: one iteration of the analysis loop
AnalyzeStatement ==
    /\ pc = "validate"
    /\ script = "test_d1_inserts"
    /\ stmt_num <= Len(statements)
    /\ warnings' = warnings \o AnalyzeWarnings(stmt_num, statements[stmt_num])
    /\ errors' = errors \o AnalyzeErrors(stmt_num, statements[stmt_num])
    /\ stmt_num' = stmt_num + 1
    /\ UNCHANGED <<runVars, batchVars, restVars>>
    /\ UNCHANGED <<script, content, pos, current_statement, in_string,
                   escape_next, statements, pc, statement_count>>
    /\ UNCHANGED fixVars

\* validate_fixed_sql.py: one iteration of the line loop
ValidateLine ==
    /\ pc = "validate"
    /\ script = "validate_fixed_sql"
    /\ stmt_num <= Len(FileLines(content))
    /\ statement_count' = statement_count + 1
    /\ errors' = errors \o LineErrors(stmt_num, FileLines(content)[stmt_num])
    /\ stmt_num' = stmt_num + 1
    /\ UNCHANGED <<runVars, batchVars, restVars>>
    /\ UNCHANGED <<script, content, pos, current_statement, in_string,
                   escape_next, statements, pc, warnings>>
    /\ UNCHANGED fixVars

\* the loop is exhausted: return the count and the lists
Return ==
    /\ pc = "validate"
    /\ stmt_num > Len(Items)
    /\ pc' = "done"
    /\ UNCHANGED <<runVars, batchVars, restVars>>
    /\ UNCHANGED <<script, content, pos, current_statement, in_string,
                   escape_next, statements, stmt_num, statement_count,
                   errors, warnings>>
    /\ UNCHANGED fixVars

Next == ScanChar \/ ScanEnd \/ ValidateStatement \/ AnalyzeStatement \/ Return

Spec == Init /\ [][Next]_vars

----------------------------------------------------------------------------
(* The program on whole statements: the splitter loop in one step.         *)

\* the parts a generated INSERT statement is put together from
StatementHeads ==
    {INSERT_INTO_VIDEOS_PAREN \o <<"a", ")", " ">>,
     INSERT_INTO_VIDEOS \o <<" ">>,
     <<"S","E","L","E","C","T"," ">>}

StatementKeywords ==
    {VALUES_PAREN, VALUES \o <<" ">>, <<>>, VALUES \o <<" ">> \o VALUES_PAREN}

BodyTokens == {<<SQ>>, <<BS>>, <<"x">>, <<SEMI>>, <<NL>>, EMPTY_FIELDS}

StatementBodies == {Flatten(b) : b \in SeqsUpTo(BodyTokens, MaxBody)}

StatementClosers == {<<")">>, <<>>}

StatementTerminators == {<<SEMI>>, <<>>}

SlotContents ==
    {h \o k \o b \o c \o t :
        h \in StatementHeads, k \in StatementKeywords, b \in StatementBodies,
        c \in StatementClosers, t \in StatementTerminators}

ExamplePairs == {a \o <<NL>> \o b : a \in Examples, b \in Examples}

\* the files read under SpecValidate
FileContents == SlotContents \cup Examples \cup ExamplePairs

InitValidate ==
    /\ script \in Splitters \cup {"validate_fixed_sql"}
    /\ content \in FileContents
    /\ pos = 1
    /\ current_statement = <<>>
    /\ in_string = FALSE
    /\ escape_next = FALSE
    /\ statements = <<>>
    /\ pc = IF script = "validate_fixed_sql" THEN "validate" ELSE "scan"
    /\ stmt_num = 1
    /\ statement_count = 0
    /\ errors = <<>>
    /\ warnings = <<>>
    /\ InFunction

\* the whole `for char in content` loop
SplitContent ==
    /\ pc = "scan"
    /\ LET st == ScanFrom(script, ScanInit, content, 1, Len(content)) IN
         /\ current_statement' = st.current_statement
         /\ in_string' = st.in_string
         /\ escape_next' = st.escape_next
         /\ statements' = st.statements
    /\ pos' = Len(content) + 1
    /\ pc' = "validate"
    /\ UNCHANGED <<runVars, batchVars, restVars>>
    /\ UNCHANGED <<script, content, stmt_num, statement_count, errors,
                   warnings>>
    /\ UNCHANGED fixVars

NextValidate ==
    SplitContent \/ ValidateStatement \/ AnalyzeStatement \/ ValidateLine
    \/ Return

SpecValidate == InitValidate /\ [][NextValidate]_vars

----------------------------------------------------------------------------
(* The per-statement checks of validate_migration_improved.py applied to   *)
(* an arbitrary trimmed, non-empty statement text (the contract "given one *)
(* statement string and its 1-based position, return its defects").        *)

StatementTexts == {Strip(c) : c \in SlotContents \cup Examples} \ {<<>>}

InitStatement ==
    /\ script = "validate_migration_improved"
    /\ content \in StatementTexts
    /\ pos = Len(content) + 1
    /\ current_statement = <<>>
    /\ in_string = FALSE
    /\ escape_next = FALSE
    /\ statements = <<content>>
    /\ pc = "validate"
    /\ stmt_num = 1
    /\ statement_count = 0
    /\ errors = <<>>
    /\ warnings = <<>>
    /\ InFunction

NextStatement == ValidateStatement \/ Return

SpecStatement == InitStatement /\ [][NextStatement]_vars

----------------------------------------------------------------------------
(* A run of a validator script: its __main__ block calls validate_sql_file *)
(* on a path at which there may be no file, prints what is returned and    *)
(* ends.                                                                   *)

Validators ==
    {"validate_fixed_sql", "validate_migration", "validate_migration_improved"}

\* errors.append(f"File not found: {file_path}")
FileNotFound == Err(0, "File not found", <<>>)

InitRun ==
    /\ script \in Validators
    /\ file_exists \in BOOLEAN
    /\ content \in (IF file_exists THEN FileContents ELSE {<<>>})
    /\ pos = 1
    /\ current_statement = <<>>
    /\ in_string = FALSE
    /\ escape_next = FALSE
    /\ statements = <<>>
    /\ pc = "open"
    /\ stmt_num = 1
    /\ statement_count = 0
    /\ errors = <<>>
    /\ warnings = <<>>
    /\ exit_code = 0
    /\ NoBatches
    /\ NoVideos
    /\ NoFix

\* with open(filepath, 'r') as f: only validate_fixed_sql.py has the
\* statement inside try ... except FileNotFoundError
OpenFile ==
    /\ pc = "open"
    /\ IF file_exists
       THEN /\ pc' = IF script = "validate_migration_improved"
                     THEN "scan" ELSE "validate"
            /\ errors' = errors
       ELSE IF script = "validate_fixed_sql"
       THEN /\ pc' = "done"
            /\ errors' = Append(errors, FileNotFound)
       ELSE /\ pc' = "raised"
            /\ errors' = errors
    /\ UNCHANGED <<script, content, pos, current_statement, in_string,
                   escape_next, statements, stmt_num, statement_count,
                   warnings, file_exists, exit_code>>
    /\ UNCHANGED <<batchVars, restVars>>
    /\ UNCHANGED fixVars

\* validate_migration.py: one iteration of the line loop
ValidateMigrationLine ==
    /\ pc = "validate"
    /\ script = "validate_migration"
    /\ stmt_num <= Len(FileLines(content))
    /\ statement_count' = statement_count + 1
    /\ errors' = errors
                 \o MigrationLineErrors(stmt_num, FileLines(content)[stmt_num])
    /\ stmt_num' = stmt_num + 1
    /\ UNCHANGED <<script, content, pos, current_statement, in_string,
                   escape_next, statements, pc, warnings, file_exists,
                   exit_code>>
    /\ UNCHANGED <<batchVars, restVars>>
    /\ UNCHANGED fixVars

\* the __main__ block after validate_sql_file has returned: it prints the
\* count and the errors and runs off its end
MainEnd ==
    /\ pc = "done"
    /\ pc' = "exited"
    /\ exit_code' = 0
    /\ UNCHANGED <<script, content, pos, current_statement, in_string,
                   escape_next, statements, stmt_num, statement_count,
                   errors, warnings, file_exists>>
    /\ UNCHANGED <<batchVars, restVars>>
    /\ UNCHANGED fixVars

\* FileNotFoundError leaves validate_sql_file and __main__ uncaught: the
\* interpreter prints the traceback and ends with status 1
Traceback ==
    /\ pc = "raised"
    /\ pc' = "exited"
    /\ exit_code' = 1
    /\ UNCHANGED <<script, content, pos, current_statement, in_string,
                   escape_next, statements, stmt_num, statement_count,
                   errors, warnings, file_exists>>
    /\ UNCHANGED <<batchVars, restVars>>
    /\ UNCHANGED fixVars

NextRun ==
    OpenFile \/ SplitContent \/ ValidateStatement \/ ValidateLine
    \/ ValidateMigrationLine \/ Return \/ MainEnd \/ Traceback

SpecRun == InitRun /\ [][NextRun]_vars

----------------------------------------------------------------------------
(* execute_migration_batches.py: main() runs the statements of the file    *)
(* through execute_batch, fifty at a time.  What wrangler answers for a    *)
(* batch is the environment's choice.                                      *)

\* batch_size = 50
BatchSize == 50

\* the text main() puts at the head of every statement; the rest of a
\* statement plays no part in main()
INSERT_OR_IGNORE == "INSERT OR IGNORE INTO videos"

\* total_batches = (len(statements) + batch_size - 1) // batch_size
total_batches == (Len(statements) + batch_size - 1) \div batch_size

InitBatches ==
    /\ script = "execute_migration_batches"
    /\ content = <<>>
    /\ pos = 1
    /\ current_statement = <<>>
    /\ in_string = FALSE
    /\ escape_next = FALSE
    /\ \E n \in 0..MaxStatements : statements = [k \in 1..n |-> INSERT_OR_IGNORE]
    /\ pc = "batches"
    /\ stmt_num = 1
    /\ statement_count = 0
    /\ errors = <<>>
    /\ warnings = <<>>
    /\ file_exists = TRUE
    /\ exit_code = 0
    /\ batch_size = BatchSize
    /\ batch_start = 0
    /\ success_count = 0
    /\ executed = <<>>
    /\ NoVideos
    /\ NoFix

\* statements[i:i + batch_size], as the number of statements it holds
BatchLen ==
    IF batch_start + batch_size <= Len(statements) THEN batch_size
    ELSE Len(statements) - batch_start

\* a loop that goes on to the next batch after a failed one
ExecuteBatchContinuing ==
    /\ pc = "batches"
    /\ batch_start < Len(statements)
    /\ \E ok \in BOOLEAN :
         /\ executed' = Append(executed,
                               [batch_num |-> (batch_start \div batch_size) + 1,
                                size |-> BatchLen, ok |-> ok])
         /\ success_count' = IF ok THEN success_count + 1 ELSE success_count
         /\ batch_start' = batch_start + batch_size
         /\ pc' = pc
    /\ UNCHANGED <<script, content, pos, current_statement, in_string,
                   escape_next, statements, stmt_num, statement_count,
                   errors, warnings, file_exists, exit_code, batch_size>>
    /\ UNCHANGED restVars
    /\ UNCHANGED fixVars

\* one iteration of `for i in range(0, len(statements), batch_size)`
ExecuteBatch ==
    /\ pc = "batches"
    /\ batch_start < Len(statements)
    /\ \E ok \in BOOLEAN :
         /\ executed' = Append(executed,
                               [batch_num |-> (batch_start \div batch_size) + 1,
                                size |-> BatchLen, ok |-> ok])
         /\ IF ok
            THEN /\ success_count' = success_count + 1
                 /\ batch_start' = batch_start + batch_size
                 /\ pc' = pc
            ELSE /\ pc' = "summary"
                 /\ UNCHANGED <<success_count, batch_start>>
    /\ UNCHANGED <<script, content, pos, current_statement, in_string,
                   escape_next, statements, stmt_num, statement_count,
                   errors, warnings, file_exists, exit_code, batch_size>>
    /\ UNCHANGED restVars
    /\ UNCHANGED fixVars

\* the range is exhausted
BatchesEnd ==
    /\ pc = "batches"
    /\ batch_start >= Len(statements)
    /\ pc' = "summary"
    /\ UNCHANGED <<script, content, pos, current_statement, in_string,
                   escape_next, statements, stmt_num, statement_count,
                   errors, warnings, file_exists, exit_code>>
    /\ UNCHANGED <<batchVars, restVars>>
    /\ UNCHANGED fixVars

\* return success_count == total_batches; sys.exit(0 if success else 1)
BatchesExit ==
    /\ pc = "summary"
    /\ pc' = "exited"
    /\ exit_code' = IF success_count = total_batches THEN 0 ELSE 1
    /\ UNCHANGED <<script, content, pos, current_statement, in_string,
                   escape_next, statements, stmt_num, statement_count,
                   errors, warnings, file_exists>>
    /\ UNCHANGED <<batchVars, restVars>>
    /\ UNCHANGED fixVars

NextBatches == ExecuteBatch \/ BatchesEnd \/ BatchesExit

SpecBatches == InitBatches /\ [][NextBatches]_vars

----------------------------------------------------------------------------
(* migrate_videos_rest_api.py: D1VideoMigration.migrate sends the fetched  *)
(* rows to the REST endpoint batch by batch.  A row is what becomes of it: *)
(* whether validate_row accepts it and what the endpoint answers for it.   *)

Fates ==
    {"invalid",     \* validate_row returns False
     "exists",      \* check_video_exists returns True
     "inserted",    \* the POST answers 200 or 201
     "rejected",    \* the POST answers another status
     "exception"}   \* the request raises

InitRest ==
    /\ script = "migrate_videos_rest_api"
    /\ content = <<>>
    /\ pos = 1
    /\ current_statement = <<>>
    /\ in_string = FALSE
    /\ escape_next = FALSE
    /\ statements = <<>>
    /\ pc = "fetch"
    /\ stmt_num = 1
    /\ statement_count = 0
    /\ errors = <<>>
    /\ warnings = <<>>
    /\ file_exists = TRUE
    /\ exit_code = 0
    /\ batch_size \in 1..MaxBatchSize
    /\ batch_start = 0
    /\ success_count = 0
    /\ executed = <<>>
    /\ videos \in SeqsUpTo(Fates, MaxVideos)
    /\ stats = [total |-> 0, successful |-> 0, failed |-> 0, skipped |-> 0]
    /\ sleeps = 0
    /\ NoFix

\* videos = self.fetch_videos_from_sqlite(); self.stats['total'] = len(videos)
FetchVideos ==
    /\ pc = "fetch"
    /\ stats' = [stats EXCEPT !.total = Len(videos)]
    /\ pc' = IF videos = <<>> THEN "report" ELSE "migrate"
    /\ UNCHANGED <<script, content, pos, current_statement, in_string,
                   escape_next, statements, stmt_num, statement_count,
                   errors, warnings, file_exists, exit_code, videos, sleeps>>
    /\ UNCHANGED batchVars
    /\ UNCHANGED fixVars

\* the positions in videos of batch = videos[i:i + self.batch_size]
BatchRows ==
    {k \in 1..Len(videos) : batch_start < k /\ k <= batch_start + batch_size}

\* the rows of S with a fate among F, as error entries in row order
RECURSIVE ErrorEntries(_, _)
ErrorEntries(S, F) ==
    IF S = {} THEN <<>>
    ELSE LET k == SetMin(S) IN
         (IF videos[k] \in F
          THEN <<[video_id |-> k, error |-> videos[k]]>> ELSE <<>>)
         \o ErrorEntries(S \ {k}, F)

NumberOf(S, F) == Cardinality({k \in S : videos[k] \in F})

\* a loop that sleeps after every batch
MigrateBatchSleepAlways ==
    /\ pc = "migrate"
    /\ batch_start < Len(videos)
    /\ errors' = errors \o ErrorEntries(BatchRows, {"invalid"})
                        \o ErrorEntries(BatchRows, {"rejected", "exception"})
    /\ stats' = [stats EXCEPT
                   !.failed = @ + NumberOf(BatchRows,
                                           {"invalid", "rejected", "exception"}),
                   !.skipped = @ + NumberOf(BatchRows, {"exists"}),
                   !.successful = @ + NumberOf(BatchRows, {"inserted"})]
    /\ sleeps' = sleeps + 1
    /\ batch_start' = batch_start + batch_size
    /\ UNCHANGED <<script, content, pos, current_statement, in_string,
                   escape_next, statements, pc, stmt_num, statement_count,
                   warnings, file_exists, exit_code, videos, batch_size,
                   success_count, executed>>
    /\ UNCHANGED fixVars

\* a loop whose insert_video_batch posts the rows it has counted as skipped
MigrateBatchSkippedPosted ==
    /\ pc = "migrate"
    /\ batch_start < Len(videos)
    /\ errors' = errors \o ErrorEntries(BatchRows, {"invalid"})
                        \o ErrorEntries(BatchRows, {"rejected", "exception"})
    /\ stats' = [stats EXCEPT
                   !.failed = @ + NumberOf(BatchRows,
                                           {"invalid", "rejected", "exception"}),
                   !.skipped = @ + NumberOf(BatchRows, {"exists"}),
                   !.successful = @ + NumberOf(BatchRows, {"inserted", "exists"})]
    /\ sleeps' = IF batch_start + batch_size < Len(videos)
                 THEN sleeps + 1 ELSE sleeps
    /\ batch_start' = batch_start + batch_size
    /\ UNCHANGED <<script, content, pos, current_statement, in_string,
                   escape_next, statements, pc, stmt_num, statement_count,
                   warnings, file_exists, exit_code, videos, batch_size,
                   success_count, executed>>
    /\ UNCHANGED fixVars

\* a loop that counts a validation failure without an error entry
MigrateBatchSilentValidation ==
    /\ pc = "migrate"
    /\ batch_start < Len(videos)
    /\ errors' = errors \o ErrorEntries(BatchRows, {"rejected", "exception"})
    /\ stats' = [stats EXCEPT
                   !.failed = @ + NumberOf(BatchRows,
                                           {"invalid", "rejected", "exception"}),
                   !.skipped = @ + NumberOf(BatchRows, {"exists"}),
                   !.successful = @ + NumberOf(BatchRows, {"inserted"})]
    /\ sleeps' = IF batch_start + batch_size < Len(videos)
                 THEN sleeps + 1 ELSE sleeps
    /\ batch_start' = batch_start + batch_size
    /\ UNCHANGED <<script, content, pos, current_statement, in_string,
                   escape_next, statements, pc, stmt_num, statement_count,
                   warnings, file_exists, exit_code, videos, batch_size,
                   success_count, executed>>
    /\ UNCHANGED fixVars

\* one iteration of `for i in range(0, len(videos), self.batch_size)`:
\* validation of the batch, insert_video_batch on the valid rows, the delay
MigrateBatch ==
    /\ pc = "migrate"
    /\ batch_start < Len(videos)
    /\ errors' = errors \o ErrorEntries(BatchRows, {"invalid"})
                        \o ErrorEntries(BatchRows, {"rejected", "exception"})
    /\ stats' = [stats EXCEPT
                   !.failed = @ + NumberOf(BatchRows,
                                           {"invalid", "rejected", "exception"}),
                   !.skipped = @ + NumberOf(BatchRows, {"exists"}),
                   !.successful = @ + NumberOf(BatchRows, {"inserted"})]
    /\ sleeps' = IF batch_start + batch_size < Len(videos)
                 THEN sleeps + 1 ELSE sleeps
    /\ batch_start' = batch_start + batch_size
    /\ UNCHANGED <<script, content, pos, current_statement, in_string,
                   escape_next, statements, pc, stmt_num, statement_count,
                   warnings, file_exists, exit_code, videos, batch_size,
                   success_count, executed>>
    /\ UNCHANGED fixVars

\* the range is exhausted: return self.stats
MigrateReturn ==
    /\ pc = "migrate"
    /\ batch_start >= Len(videos)
    /\ pc' = "report"
    /\ UNCHANGED <<script, content, pos, current_statement, in_string,
                   escape_next, statements, stmt_num, statement_count,
                   errors, warnings, file_exists, exit_code>>
    /\ UNCHANGED <<batchVars, restVars>>
    /\ UNCHANGED fixVars

\* main(): report_results, then sys.exit(1) if stats['failed'] > 0 else 0
RestExit ==
    /\ pc = "report"
    /\ pc' = "exited"
    /\ exit_code' = IF stats.failed > 0 THEN 1 ELSE 0
    /\ UNCHANGED <<script, content, pos, current_statement, in_string,
                   escape_next, statements, stmt_num, statement_count,
                   errors, warnings, file_exists>>
    /\ UNCHANGED <<batchVars, restVars>>
    /\ UNCHANGED fixVars

NextRest == FetchVideos \/ MigrateBatch \/ MigrateReturn \/ RestExit

SpecRest == InitRest /\ [][NextRest]_vars

----------------------------------------------------------------------------
(* What the properties below are stated with: the escape and quote         *)
(* structure of a text, read off the text itself rather than off the       *)
(* scanner's flags.                                                        *)

\* the number of consecutive backslashes that end just before position i
BackslashRun(s, i) ==
    LET others == {j \in 1..(i - 1) : s[j] # BS} IN
    IF others = {} THEN i - 1
    ELSE (i - 1) - (CHOOSE j \in others : \A k \in others : k <= j)

\* the character at position i follows an active backslash
Escaped(s, i) == BackslashRun(s, i) % 2 = 1

\* the unescaped single quotes of s
UnescapedQuotes(s) == {i \in 1..Len(s) : s[i] = SQ /\ ~Escaped(s, i)}

\* position i lies inside a single-quoted literal
InLiteral(s, i) ==
    Cardinality({j \in UnescapedQuotes(s) : j < i}) % 2 = 1

Semicolons(s) == {i \in 1..Len(s) : s[i] = SEMI}

\* the text of s after its last semicolon
AfterLastSemicolon(s) ==
    LET semis == Semicolons(s) IN
    IF semis = {} THEN s
    ELSE SubSeq(s, (CHOOSE i \in semis : \A k \in semis : k <= i) + 1, Len(s))

\* the k-th semicolon-terminated piece of s, terminator included
Piece(s, k) ==
    LET semis == Semicolons(s)
        upTo(n) == CHOOSE i \in semis :
                       Cardinality({j \in semis : j <= i}) = n IN
    SubSeq(s, IF k = 1 THEN 1 ELSE upTo(k - 1) + 1, upTo(k))

\* sep.join(stmts)
RECURSIVE Join(_, _)
Join(stmts, sep) ==
    IF stmts = <<>> THEN <<>>
    ELSE IF Len(stmts) = 1 THEN stmts[1]
    ELSE stmts[1] \o sep \o Join(Tail(stmts), sep)

\* the entries of a findings list that are tagged with position n
Tagged(list, n) == SelectSeq(list, LAMBDA e : e.num = n)

Messages(list) == {list[i].msg : i \in 1..Len(list)}

----------------------------------------------------------------------------
(* migrate_videos_to_d1.py: VideoMigration turns the rows of the source    *)
(* database into INSERT statements and writes them to the output file in   *)
(* batches.  A value of a row is None, an integer or a string.             *)

None == [type |-> "None"]

Int(n) == [type |-> "int", val |-> n]

Str(s) == [type |-> "str", val |-> s]

\* the keys of the dict transform_row returns, in its order
ColumnNames ==
    <<"video_id", "cleaned_title", "cleaned_description", "channel_name",
      "channel_id", "published_at", "duration_seconds", "view_count",
      "like_count", "comment_count", "is_indexed", "created_at">>

\* a key as text
KeyText(key) ==
    CASE key = "video_id" -> <<"v","i","d","e","o","_","i","d">>
      [] key = "cleaned_title" -> <<"c","l","e","a","n","e","d","_","t","i","t","l","e">>
      [] key = "cleaned_description" -> <<"c","l","e","a","n","e","d","_","d","e","s","c","r","i","p","t","i","o","n">>
      [] key = "channel_name" -> <<"c","h","a","n","n","e","l","_","n","a","m","e">>
      [] key = "channel_id" -> <<"c","h","a","n","n","e","l","_","i","d">>
      [] key = "published_at" -> <<"p","u","b","l","i","s","h","e","d","_","a","t">>
      [] key = "duration_seconds" -> <<"d","u","r","a","t","i","o","n","_","s","e","c","o","n","d","s">>
      [] key = "view_count" -> <<"v","i","e","w","_","c","o","u","n","t">>
      [] key = "like_count" -> <<"l","i","k","e","_","c","o","u","n","t">>
      [] key = "comment_count" -> <<"c","o","m","m","e","n","t","_","c","o","u","n","t">>
      [] key = "is_indexed" -> <<"i","s","_","i","n","d","e","x","e","d">>
      [] key = "created_at" -> <<"c","r","e","a","t","e","d","_","a","t">>

numeric_fields ==
    <<"duration_seconds", "view_count", "like_count", "comment_count">>

Digits == <<"0", "1", "2", "3", "4", "5", "6", "7", "8", "9">>

\* str(n) for an integer n >= 0
RECURSIVE Decimal(_)
Decimal(n) ==
    IF n < 10 THEN <<Digits[n + 1]>>
    ELSE Decimal(n \div 10) \o <<Digits[(n % 10) + 1]>>

\* the truth value Python gives a value
Truthy(value) ==
    CASE value.type = "None" -> FALSE
      [] value.type = "int" -> value.val # 0
      [] value.type = "str" -> value.val # <<>>

\* row.get(field) and not isinstance(row[field], (int, type(None)))
BadType(row, field) ==
    Truthy(row[field]) /\ row[field].type \notin {"int", "None"}

\* validate_row(row)[0]
ValidRow(row) ==
    /\ Truthy(row["video_id"])
    /\ \A k \in 1..Len(numeric_fields) : ~BadType(row, numeric_fields[k])

\* validate_row(row)[1] for a row that is not valid: the message and, for
\* a bad type, the first field that has it
RowError(row) ==
    IF ~Truthy(row["video_id"]) THEN <<"Missing video_id">>
    ELSE LET bad == {k \in 1..Len(numeric_fields) :
                        BadType(row, numeric_fields[k])}
             first == CHOOSE k \in bad : \A j \in bad : k <= j
         IN  <<"Invalid type for", numeric_fields[first]>>

\* transform_row(row): a fetched row has every key
TransformRow(row) == [k \in 1..Len(ColumnNames) |-> row[ColumnNames[k]]]

\* s.replace("'", "''")
DoubleQuotes(s) ==
    Flatten([k \in 1..Len(s) |-> IF s[k] = SQ THEN <<SQ, SQ>> ELSE <<s[k]>>])

\* escape_sql_string(value)
escape_sql_string(value) ==
    CASE value.type = "None" -> <<"N", "U", "L", "L">>
      [] value.type = "int" -> Decimal(value.val)
      [] value.type = "str" -> <<SQ>> \o DoubleQuotes(value.val) \o <<SQ>>

\* generate_insert_statement(row), row being what transform_row returns
generate_insert_statement(row) ==
    INSERT_INTO_VIDEOS_PAREN
    \o Join([k \in 1..Len(ColumnNames) |-> KeyText(ColumnNames[k])],
            <<",", " ">>)
    \o <<")", " ">> \o VALUES_PAREN
    \o Join([k \in 1..Len(row) |-> escape_sql_string(row[k])], <<",", " ">>)
    \o <<")", ";">>

\* the cleaned_title values of the checked rows
Titles == {<<>>, <<SQ>>, <<BS>>, <<SEMI>>}

\* a row of the source database
SourceRow(video_id, cleaned_title, duration_seconds) ==
    [key \in {ColumnNames[k] : k \in 1..Len(ColumnNames)} |->
        CASE key = "video_id" -> video_id
          [] key = "cleaned_title" -> cleaned_title
          [] key = "duration_seconds" -> duration_seconds
          [] key = "cleaned_description" -> Str(<<>>)
          [] key = "channel_name" -> Str(<<"c">>)
          [] key = "view_count" -> Int(12)
          [] key = "comment_count" -> Int(0)
          [] key = "is_indexed" -> Int(0)
          [] OTHER -> None]

\* the rows read: valid ones with every title, one with no title, one with
\* no video_id and one with text for a number
SourceRows ==
    {SourceRow(Str(<<"v">>), Str(t), Int(7)) :
        t \in Titles}
    \cup {SourceRow(Str(<<"v">>), None, None),
          SourceRow(None, Str(<<>>), Int(7)),
          SourceRow(Str(<<"v">>), Str(<<>>), Str(<<"x">>))}

\* the output file of an earlier run
OldFile == ExClean \o <<NL>>

InitSqlFile ==
    /\ script = "migrate_videos_to_d1"
    /\ file_exists \in BOOLEAN
    /\ content = IF file_exists THEN OldFile ELSE <<>>
    /\ pos = 1
    /\ current_statement = <<>>
    /\ in_string = FALSE
    /\ escape_next = FALSE
    /\ statements = <<>>
    /\ pc = "rows"
    /\ stmt_num = 1
    /\ statement_count = 0
    /\ errors = <<>>
    /\ warnings = <<>>
    /\ exit_code = 0
    /\ batch_size \in 1..MaxBatchSize
    /\ batch_start = 0
    /\ success_count = 0
    /\ executed = <<>>
    /\ videos \in SeqsUpTo(SourceRows, MaxRows)
    /\ stats = [total |-> 0, successful |-> 0, failed |-> 0, skipped |-> 0]
    /\ sleeps = 0
    /\ NoFix

\* the text of the output file after _write_batch(batch)
WrittenFile(batch) ==
    (IF file_exists THEN content ELSE <<>>) \o Join(batch, <<NL>>) \o <<NL>>

\* a loop that keeps the written statements in the list
MigrateRowKeeping ==
    /\ pc = "rows"
    /\ stmt_num <= Len(videos)
    /\ LET row == videos[stmt_num] IN
         IF ~ValidRow(row)
         THEN /\ errors' = Append(errors, [video_id |-> row["video_id"],
                                           error |-> RowError(row)])
              /\ stats' = [stats EXCEPT !.failed = @ + 1]
              /\ UNCHANGED <<statements, content, file_exists>>
         ELSE LET sql == generate_insert_statement(TransformRow(row))
                  batch == Append(statements, sql) IN
              /\ stats' = [stats EXCEPT !.successful = @ + 1]
              /\ errors' = errors
              /\ statements' = batch
              /\ IF Len(batch) >= batch_size
                 THEN /\ content' = WrittenFile(batch)
                      /\ file_exists' = TRUE
                 ELSE UNCHANGED <<content, file_exists>>
    /\ stmt_num' = stmt_num + 1
    /\ UNCHANGED <<script, pos, current_statement, in_string, escape_next,
                   pc, statement_count, warnings, exit_code, videos, sleeps>>
    /\ UNCHANGED batchVars
    /\ UNCHANGED fixVars

\* one iteration of `for row in cursor`
MigrateRow ==
    /\ pc = "rows"
    /\ stmt_num <= Len(videos)
    /\ LET row == videos[stmt_num] IN
         IF ~ValidRow(row)
         THEN /\ errors' = Append(errors, [video_id |-> row["video_id"],
                                           error |-> RowError(row)])
              /\ stats' = [stats EXCEPT !.failed = @ + 1]
              /\ UNCHANGED <<statements, content, file_exists>>
         ELSE LET sql == generate_insert_statement(TransformRow(row))
                  batch == Append(statements, sql) IN
              /\ stats' = [stats EXCEPT !.successful = @ + 1]
              /\ errors' = errors
              /\ IF Len(batch) >= batch_size
                 THEN /\ content' = WrittenFile(batch)
                      /\ file_exists' = TRUE
                      /\ statements' = <<>>
                 ELSE /\ statements' = batch
                      /\ UNCHANGED <<content, file_exists>>
    /\ stmt_num' = stmt_num + 1
    /\ UNCHANGED <<script, pos, current_statement, in_string, escape_next,
                   pc, statement_count, warnings, exit_code, videos, sleeps>>
    /\ UNCHANGED batchVars
    /\ UNCHANGED fixVars

\* the cursor is exhausted: the remaining statements are written and
\* migrate returns successful, failed
MigrateEnd ==
    /\ pc = "rows"
    /\ stmt_num > Len(videos)
    /\ IF statements # <<>>
       THEN /\ content' = WrittenFile(statements)
            /\ file_exists' = TRUE
       ELSE UNCHANGED <<content, file_exists>>
    /\ pc' = "report"
    /\ UNCHANGED <<script, pos, current_statement, in_string, escape_next,
                   statements, stmt_num, statement_count, errors, warnings,
                   exit_code>>
    /\ UNCHANGED <<batchVars, restVars>>
    /\ UNCHANGED fixVars

\* __main__: report_errors(); sys.exit(1 if failed > 0 else 0)
SqlFileExit ==
    /\ pc = "report"
    /\ pc' = "exited"
    /\ exit_code' = IF stats.failed > 0 THEN 1 ELSE 0
    /\ UNCHANGED <<script, content, pos, current_statement, in_string,
                   escape_next, statements, stmt_num, statement_count,
                   errors, warnings, file_exists>>
    /\ UNCHANGED <<batchVars, restVars>>
    /\ UNCHANGED fixVars

NextSqlFile == MigrateRow \/ MigrateEnd \/ SqlFileExit

SpecSqlFile == InitSqlFile /\ [][NextSqlFile]_vars

----------------------------------------------------------------------------
(* fix_sql_semicolons.py: fix_sql_file reads the lines of the input file,  *)
(* appends a semicolon to the INSERT lines that lack one and writes the    *)
(* lines to the output file.                                               *)

\* f.write(line + '\n') for each line
LinesOf(lines) == Flatten([k \in 1..Len(lines) |-> lines[k] \o <<NL>>])

\* a body that appends a semicolon to every INSERT line
FixedLineAppending(line) ==
    LET stripped == RStrip(line) IN
    IF StartsWith(Strip(stripped), INSERT_INTO_VIDEOS)
    THEN RStrip(stripped) \o <<SEMI>>
    ELSE stripped

\* the body of `for line in lines`: what is appended to fixed_lines
FixedLine(line) ==
    LET stripped == RStrip(line) IN
    IF StartsWith(Strip(stripped), INSERT_INTO_VIDEOS)
       /\ ~EndsWith(Strip(stripped), <<SEMI>>)
    THEN RStrip(stripped) \o <<SEMI>>
    ELSE stripped

\* the lines of the checked input files
LineHeads == {<<>>, <<" ">>}

LineCores == {<<"a">>, INSERT_INTO_VIDEOS}

LineTails == {<<>>, <<SEMI>>, <<" ">>, <<SEMI, " ">>, <<" ", SEMI>>}

FixerLines ==
    {<<>>} \cup {h \o c \o t : h \in LineHeads, c \in LineCores, t \in LineTails}

\* files of up to MaxLines lines; the last line may lack its newline
FixerFiles ==
    LET whole == {LinesOf(ls) : ls \in SeqsUpTo(FixerLines, MaxLines)} IN
    whole \cup {SubSeq(text, 1, Len(text) - 1) : text \in whole \ {<<>>}}

InitSemicolons ==
    /\ script = "fix_sql_semicolons"
    /\ content \in FixerFiles
    /\ pos = 1
    /\ current_statement = <<>>
    /\ in_string = FALSE
    /\ escape_next = FALSE
    /\ statements = <<>>
    /\ pc = "lines"
    /\ stmt_num = 1
    /\ statement_count = 0
    /\ errors = <<>>
    /\ warnings = <<>>
    /\ file_exists = TRUE
    /\ exit_code = 0
    /\ NoBatches
    /\ NoVideos
    /\ NoFix

\* one iteration of `for line in lines`
FixLine ==
    /\ script = "fix_sql_semicolons"
    /\ pc = "lines"
    /\ stmt_num <= Len(FileLines(content))
    /\ fixed_lines' = Append(fixed_lines, FixedLine(FileLines(content)[stmt_num]))
    /\ stmt_num' = stmt_num + 1
    /\ UNCHANGED <<script, content, pos, current_statement, in_string,
                   escape_next, statements, pc, statement_count, errors,
                   warnings, in_values, output>>
    /\ UNCHANGED <<runVars, batchVars, restVars>>

\* the loop is over: the fixed lines are written to the output file
WriteFixed ==
    /\ script = "fix_sql_semicolons"
    /\ pc = "lines"
    /\ stmt_num > Len(FileLines(content))
    /\ output' = LinesOf(fixed_lines)
    /\ pc' = "done"
    /\ UNCHANGED <<script, content, pos, current_statement, in_string,
                   escape_next, statements, stmt_num, statement_count,
                   errors, warnings, fixed_lines, in_values>>
    /\ UNCHANGED <<runVars, batchVars, restVars>>

\* fix_sql_file is called again, with the file it wrote as its input
FixAgain ==
    /\ script = "fix_sql_semicolons"
    /\ pc = "done"
    /\ content' = output
    /\ fixed_lines' = <<>>
    /\ stmt_num' = 1
    /\ pc' = "lines"
    /\ UNCHANGED <<script, pos, current_statement, in_string, escape_next,
                   statements, statement_count, errors, warnings, in_values,
                   output>>
    /\ UNCHANGED <<runVars, batchVars, restVars>>

NextSemicolons == FixLine \/ WriteFixed \/ FixAgain

SpecSemicolons == InitSemicolons /\ [][NextSemicolons]_vars

----------------------------------------------------------------------------
(* fix_sql_quotes.py: fix_sql_quotes collects the lines of each INSERT OR  *)
(* IGNORE statement and doubles quotes in the VALUES part of a statement   *)
(* that ends on a later line than it starts on; main writes the result.    *)

INSERT_OR_IGNORE_INTO_VIDEOS ==
    <<"I","N","S","E","R","T"," ","O","R"," ","I","G","N","O","R","E"," ",
      "I","N","T","O"," ","v","i","d","e","o","s">>

\* content.split('\n')
SplitLines(text) ==
    LET nl == Newlines(text)
        n == Cardinality(nl)
        cut[k \in 0..(n + 1)] ==
            IF k = 0 THEN 0
            ELSE IF k = n + 1 THEN Len(text) + 1
            ELSE CHOOSE i \in nl : Cardinality({j \in nl : j <= i}) = k IN
    [k \in 1..(n + 1) |-> SubSeq(text, cut[k - 1] + 1, cut[k] - 1)]

\* the statement after `parts = current_statement.split("VALUES (", 1)` and
\* the replace on the VALUES part
FixedValues(statement) ==
    IF Contains(statement, VALUES_PAREN)
    THEN LET at == SetMin(Occurrences(statement, VALUES_PAREN)) IN
         SubSeq(statement, 1, at - 1)
         \o DoubleQuotes(SubSeq(statement, at, Len(statement)))
    ELSE statement

\* the statements of the checked input files: with the VALUES part on the
\* line of INSERT or on the next line, and one string literal
QuoteBodies == SeqsUpTo({"a", SQ}, MaxBody)

QuoteStatement(sep, body) ==
    INSERT_OR_IGNORE_INTO_VIDEOS \o <<" ", "(", "a", ")">> \o sep
    \o VALUES_PAREN \o <<SQ>> \o body \o <<SQ, ")", SEMI>>

QuoteItems ==
    {<<>>} \cup {QuoteStatement(sep, body) :
                    sep \in {<<" ">>, <<NL>>}, body \in QuoteBodies}

\* files of up to MaxItems statements or blank lines, with or without a
\* newline at the end
QuoteFiles ==
    LET joined == {Join(items, <<NL>>) : items \in SeqsUpTo(QuoteItems, MaxItems)} IN
    joined \cup {text \o <<NL>> : text \in joined}

InitQuotes ==
    /\ script = "fix_sql_quotes"
    /\ content \in QuoteFiles
    /\ pos = 1
    /\ current_statement = <<>>
    /\ in_string = FALSE
    /\ escape_next = FALSE
    /\ statements = <<>>
    /\ pc = "lines"
    /\ stmt_num = 1
    /\ statement_count = 0
    /\ errors = <<>>
    /\ warnings = <<>>
    /\ file_exists = TRUE
    /\ exit_code = 0
    /\ NoBatches
    /\ NoVideos
    /\ NoFix

\* one iteration of `for line in lines`
QuoteLine ==
    /\ script = "fix_sql_quotes"
    /\ pc = "lines"
    /\ stmt_num <= Len(SplitLines(content))
    /\ LET line == SplitLines(content)[stmt_num] IN
         IF StartsWith(Strip(line), INSERT_OR_IGNORE_INTO_VIDEOS)
         THEN /\ fixed_lines' = IF current_statement # <<>>
                                 THEN Append(fixed_lines, current_statement)
                                 ELSE fixed_lines
              /\ current_statement' = line
              /\ in_values' = TRUE
         ELSE IF in_values
         THEN LET joined == current_statement \o <<NL>> \o line IN
              IF EndsWith(Strip(line), <<SEMI>>)
              THEN /\ fixed_lines' = Append(fixed_lines, FixedValues(joined))
                   /\ current_statement' = <<>>
                   /\ in_values' = FALSE
              ELSE /\ current_statement' = joined
                   /\ UNCHANGED <<fixed_lines, in_values>>
         ELSE UNCHANGED <<fixed_lines, current_statement, in_values>>
    /\ stmt_num' = stmt_num + 1
    /\ UNCHANGED <<script, content, pos, in_string, escape_next, statements,
                   pc, statement_count, errors, warnings, output>>
    /\ UNCHANGED <<runVars, batchVars, restVars>>

\* the loop is over: the remaining statement is added, the joined lines are
\* returned and main writes them to the output file
QuotesReturn ==
    /\ script = "fix_sql_quotes"
    /\ pc = "lines"
    /\ stmt_num > Len(SplitLines(content))
    /\ fixed_lines' = IF current_statement # <<>>
                       THEN Append(fixed_lines, current_statement)
                       ELSE fixed_lines
    /\ output' = Join(fixed_lines', <<NL>>)
    /\ pc' = "done"
    /\ UNCHANGED <<script, content, pos, current_statement, in_string,
                   escape_next, statements, stmt_num, statement_count,
                   errors, warnings, in_values>>
    /\ UNCHANGED <<runVars, batchVars, restVars>>

NextQuotes == QuoteLine \/ QuotesReturn

SpecQuotes == InitQuotes /\ [][NextQuotes]_vars

----------------------------------------------------------------------------
(* Properties of the splitter (specification Spec).                        *)

\* C1: a statement is appended only when the character just read is a
\* semicolon that lies outside every single-quoted literal (in_string is
\* false); the file INSERT INTO videos (a) VALUES ('x;y'); is split into
\* exactly one statement, the whole text.
C1_NoSplitInsideLiteral ==
    [][/\ (pc = "scan" /\ statements' # statements)
           => /\ content[pos] = SEMI
              /\ ~in_string
              /\ ~InLiteral(content, pos)
       /\ (pc = "scan" /\ pc' = "validate" /\ content = ExSemicolonInLiteral)
           => statements' = <<ExSemicolonInLiteral>>]_vars

C1_Witness ==
    /\ pc = "validate"
    /\ content = ExSemicolonInLiteral
    /\ \E i \in Semicolons(content) : InLiteral(content, i)
    /\ statements = <<ExSemicolonInLiteral>>

\* the input is made of semicolon-terminated statements: no semicolon is
\* backslash-escaped, none lies inside a literal, and only whitespace follows
\* the last one
TerminatedStatements(s) ==
    /\ \A i \in Semicolons(s) : ~Escaped(s, i) /\ ~InLiteral(s, i)
    /\ Strip(AfterLastSemicolon(s)) = <<>>

\* C2: for a file made of N semicolon-terminated statements (no escaped
\* terminator, no semicolon inside a literal) the splitter leaves exactly N
\* statements, the k-th being the k-th piece of the file, trimmed.
C2_CountAndOrder ==
    (pc = "validate" /\ TerminatedStatements(content))
        => /\ Len(statements) = Cardinality(Semicolons(content))
           /\ \A k \in 1..Len(statements) :
                  statements[k] = Strip(Piece(content, k))

C2_Witness ==
    /\ pc = "validate"
    /\ TerminatedStatements(content)
    /\ Cardinality(Semicolons(content)) = 2
    /\ Len(statements) = 2
    /\ statements[1] # statements[2]

\* C3: the character that follows an active backslash is not interpreted:
\* reading it neither toggles in_string nor appends a statement, whatever
\* the character is; the file INSERT INTO videos (a) VALUES ('it\'s'); is
\* split into exactly one statement.
C3_EscapedNotInterpreted ==
    [][/\ (pc = "scan" /\ pos' = pos + 1 /\ Escaped(content, pos))
           => /\ escape_next
              /\ in_string' = in_string
              /\ statements' = statements
              /\ ~escape_next'
       /\ (pc = "scan" /\ pc' = "validate" /\ content = ExEscapedQuote)
           => statements' = <<ExEscapedQuote>>]_vars

C3_Witness ==
    /\ pc = "validate"
    /\ content = ExEscapedQuote
    /\ \E i \in 1..Len(content) : content[i] = SQ /\ Escaped(content, i)
    /\ statements = <<ExEscapedQuote>>

C5_TrailingEmitted ==
    (pc = "validate" /\ Strip(current_statement) # <<>>)
        => /\ statements # <<>>
           /\ statements[Len(statements)] = Strip(current_statement)

\* C15: every unescaped quote toggles in_string, a doubled quote included:
\* the flag is the parity of the unescaped quotes read so far, two adjacent
\* unescaped quotes leave it as it was, and a semicolon that follows a
\* doubled quote inside a literal is not a split point.
C15_EveryQuoteToggles ==
    [][(pc = "scan" /\ pos' = pos + 1)
         => /\ (content[pos] = SQ /\ ~Escaped(content, pos))
                  => in_string' = ~in_string
            /\ in_string' = InLiteral(content, pos')
            /\ (/\ pos >= 3
                /\ content[pos - 2] = SQ /\ ~Escaped(content, pos - 2)
                /\ content[pos - 1] = SQ
                /\ InLiteral(content, pos - 2))
                  => /\ in_string
                     /\ content[pos] = SEMI => statements' = statements]_vars

C15_Witness ==
    /\ pc = "scan"
    /\ pos = 6
    /\ SubSeq(content, 1, 5) = <<SQ, "a", SQ, SQ, SEMI>>
    /\ in_string
    /\ statements = <<>>

\* C16: a semicolon read outside a literal appends a statement only if the
\* text accumulated since the previous split point is non-empty after
\* trimming (so a terminator that follows another with only whitespace
\* between them appends nothing), and every statement of the list is
\* non-empty and trimmed.
C16_EmptyNotEmitted ==
    [][(pc = "scan" /\ pos' = pos + 1)
         => /\ statements' # statements => Strip(current_statement) # <<>>
            /\ \A k \in 1..Len(statements') :
                   /\ statements'[k] # <<>>
                   /\ Strip(statements'[k]) = statements'[k]]_vars

\* C20: a statement is appended with both flags clear, every statement of
\* the list has an even number of unescaped quotes, by the text and by the
\* validator's own count, and no "Unbalanced quotes" defect is ever reported
\* for a file.
C20_StatementsHaveEvenQuotes ==
    [][/\ (pc = "scan" /\ statements' # statements)
           => ~in_string' /\ ~escape_next'
       /\ \A k \in 1..Len(statements') :
              /\ Cardinality(UnescapedQuotes(statements'[k])) % 2 = 0
              /\ RealQuotes(statements'[k]) % 2 = 0
       /\ script = "validate_migration_improved"
              => "Unbalanced quotes" \notin Messages(errors')]_vars

C20_Witness ==
    /\ script = "validate_migration_improved"
    /\ pc = "done"
    /\ statements = <<ExEscapedQuote>>
    /\ CountChar(statements[1], SQ) % 2 = 1
    /\ Cardinality(UnescapedQuotes(statements[1])) = 2
    /\ errors = <<>>

----------------------------------------------------------------------------
(* The scanner as a finite-state machine with a transition table.          *)

CharClasses == {"quote", "backslash", "semicolon", "other"}

CharClass(c) ==
    IF c = SQ THEN "quote"
    ELSE IF c = BS THEN "backslash"
    ELSE IF c = SEMI THEN "semicolon"
    ELSE "other"

\* a table over {Normal, InString, Escaped}: a backslash leads to Escaped,
\* a quote goes between Normal and InString, and Escaped is left for the
\* state that ret gives for the character read
ThreeStateTable(ret) ==
    [s \in {"Normal", "InString", "Escaped"}, k \in CharClasses |->
        IF s = "Escaped" THEN ret[k]
        ELSE IF k = "backslash" THEN "Escaped"
        ELSE IF k = "quote"
        THEN (IF s = "Normal" THEN "InString" ELSE "Normal")
        ELSE s]

\* every such table: each way of leaving Escaped
ThreeStateTables ==
    {ThreeStateTable(ret) : ret \in [CharClasses -> {"Normal", "InString"}]}

\* the table with one Escaped state for each side of a literal
FourStateTable ==
    [s \in {"Normal", "InString", "EscapedNormal", "EscapedInString"},
     k \in CharClasses |->
        IF s = "EscapedNormal" THEN "Normal"
        ELSE IF s = "EscapedInString" THEN "InString"
        ELSE IF k = "backslash"
        THEN (IF s = "Normal" THEN "EscapedNormal" ELSE "EscapedInString")
        ELSE IF k = "quote"
        THEN (IF s = "Normal" THEN "InString" ELSE "Normal")
        ELSE s]

\* the machine run over text[lo..hi] from m: the state reached and the
\* positions of the semicolons read in state Normal, the split points
RECURSIVE FsmFrom(_, _, _, _, _)
FsmFrom(table, m, text, lo, hi) ==
    IF lo > hi THEN m
    ELSE IF lo = hi
    THEN [state |-> table[m.state, CharClass(text[lo])],
          splits |-> IF m.state = "Normal" /\ text[lo] = SEMI
                     THEN Append(m.splits, lo) ELSE m.splits]
    ELSE LET first == FsmFrom(table, m, text, lo, (lo + hi) \div 2) IN
         IF first.state # ""
         THEN FsmFrom(table, first, text, (lo + hi) \div 2 + 1, hi)
         ELSE first

FsmRun(table, text) ==
    FsmFrom(table, [state |-> "Normal", splits |-> <<>>], text, 1, Len(text))

\* the trimmed pieces into which the split points cut text
SplitAt(text, splits) ==
    [k \in 1..Len(splits) |->
        Strip(SubSeq(text, IF k = 1 THEN 1 ELSE splits[k - 1] + 1, splits[k]))]

\* no backslash of s is read as an escape outside a literal
EscapesInLiteralOnly(s) ==
    \A p \in 1..Len(s) :
        (s[p] = BS /\ ~Escaped(s, p)) => InLiteral(s, p)

\* C19 as stated: a machine with the three states Normal, InString and
\* Escaped and one transition table cuts every input at the scanner's split
\* points and ends in the scanner's quote state.
C19_ThreeStateMachine ==
    pc = "validate"
        => \E table \in ThreeStateTables :
               LET m == FsmRun(table, content) IN
               /\ SplitAt(content, m.splits) = statements
               /\ m.state = "Normal" => ~in_string
               /\ m.state = "InString" => in_string

\* C19, amended: the machine with four states (an Escaped state for each
\* side of a literal) cuts every input at the scanner's split points and
\* ends in the scanner's flags; the three-state machine whose Escaped state
\* returns to InString does so on the inputs that have no escape outside a
\* literal.
C19_FourStateMachine ==
    pc = "validate"
        => /\ LET m == FsmRun(FourStateTable, content) IN
               /\ SplitAt(content, m.splits) = statements
               /\ in_string = (m.state \in {"InString", "EscapedInString"})
               /\ escape_next
                    = (m.state \in {"EscapedNormal", "EscapedInString"})
           /\ EscapesInLiteralOnly(content)
                => LET m == FsmRun(ThreeStateTable(
                                    [k \in CharClasses |-> "InString"]),
                                  content) IN
                   /\ SplitAt(content, m.splits) = statements
                   /\ m.state = "Normal" => ~in_string
                   /\ m.state = "InString" => in_string

C19_Witness ==
    /\ pc = "validate"
    /\ content = ExEscapeBothSides
    /\ statements = << <<BS, "a", SEMI>> >>
    /\ in_string
    /\ FsmRun(FourStateTable, content).splits = <<3>>
    /\ \A table \in ThreeStateTables :
           SplitAt(content, FsmRun(table, content).splits) # statements

----------------------------------------------------------------------------
(* Properties of the validators (specifications SpecValidate and           *)
(* SpecStatement).                                                         *)

\* the statements validate_migration_improved.py has validated so far
Validated ==
    IF script = "validate_migration_improved" /\ pc \in {"validate", "done"}
    THEN 1..(stmt_num - 1) ELSE {}

\* the statements analyze_insert_statements has analysed so far
Analysed ==
    IF script = "test_d1_inserts" /\ pc \in {"validate", "done"}
    THEN 1..(stmt_num - 1) ELSE {}

\* the lines validate_fixed_sql.py has validated so far
ValidatedLines ==
    IF script = "validate_fixed_sql" /\ pc \in {"validate", "done"}
    THEN 1..(stmt_num - 1) ELSE {}

WellFormed(s) ==
    /\ StartsWith(s, INSERT_INTO_VIDEOS_PAREN)
    /\ Contains(s, VALUES_PAREN)
    /\ CountChar(s, "(") = CountChar(s, ")")
    /\ Cardinality(UnescapedQuotes(s)) % 2 = 0
    /\ Cardinality(Occurrences(s, VALUES)) = 1
    /\ ~Contains(s, EMPTY_FIELDS)

\* C6: a validated statement that begins with `INSERT INTO videos (`,
\* contains `VALUES (`, has as many `(` as `)`, an even number of unescaped
\* quotes, one VALUES and no run of four empty literals has no defect; the
\* file INSERT INTO videos (video_id) VALUES ('abc'); has no defect at all.
C6_WellFormedNoDefects ==
    /\ \A n \in Validated :
           WellFormed(statements[n]) => Tagged(errors, n) = <<>>
    /\ (script = "validate_migration_improved" /\ pc = "done"
        /\ content = ExClean)
           => statement_count = 1 /\ errors = <<>>

C6_Witness ==
    /\ script = "validate_migration_improved"
    /\ pc = "done"
    /\ content = ExClean
    /\ statements = <<ExClean>>
    /\ WellFormed(statements[1])
    /\ errors = <<>>

\* C7: a validated statement whose counts of `(` and `)` differ has an
\* unbalanced-parentheses defect stating both counts; validating the file
\* INSERT INTO videos (video_id) VALUES ('abc'  reports such a defect.
C7_UnbalancedParentheses ==
    /\ \A n \in Validated :
           LET s == statements[n] IN
           (StartsWith(s, INSERT_INTO_VIDEOS)
            /\ CountChar(s, "(") # CountChar(s, ")"))
               => \E i \in 1..Len(errors) :
                      errors[i] = Err(n, "Unbalanced parentheses",
                                      <<CountChar(s, "("), CountChar(s, ")")>>)
    /\ (script = "validate_migration_improved" /\ pc = "done"
        /\ content = ExUnterminated)
           => "Unbalanced parentheses" \in Messages(errors)

\* C8: a statement that begins with `INSERT INTO videos` but not with
\* `INSERT INTO videos (` gets "Invalid INSERT syntax" from the strict
\* validator and "Should specify explicit column names" from the analysis.
C8_NoColumnList ==
    /\ \A n \in Validated :
           LET s == statements[n] IN
           (StartsWith(s, INSERT_INTO_VIDEOS)
            /\ ~StartsWith(s, INSERT_INTO_VIDEOS_PAREN))
               => "Invalid INSERT syntax" \in Messages(Tagged(errors, n))
    /\ \A n \in Analysed :
           LET s == statements[n] IN
           (StartsWith(s, INSERT_INTO_VIDEOS)
            /\ ~StartsWith(s, INSERT_INTO_VIDEOS_PAREN))
               => "Should specify explicit column names"
                      \in Messages(Tagged(warnings, n))

\* C9: for a validated statement that begins with `INSERT INTO videos`, an
\* odd number of unescaped quotes gives exactly one unbalanced-quotes defect,
\* which cites that number; an even number gives none.
C9_UnbalancedQuotes ==
    \A n \in Validated :
        LET s == statements[n]
            quotes == Cardinality(UnescapedQuotes(s))
            found == SelectSeq(Tagged(errors, n),
                               LAMBDA e : e.msg = "Unbalanced quotes") IN
        StartsWith(s, INSERT_INTO_VIDEOS)
            => IF quotes % 2 = 1
               THEN found = <<Err(n, "Unbalanced quotes", <<quotes>>)>>
               ELSE found = <<>>

C9_Witness ==
    /\ pc = "done"
    /\ statements = <<ExOddQuotes>>
    /\ \E i \in 1..Len(ExOddQuotes) :
           ExOddQuotes[i] = SQ /\ Escaped(ExOddQuotes, i)
    /\ Cardinality(UnescapedQuotes(ExOddQuotes)) = 1
    /\ Err(1, "Unbalanced quotes", <<1>>) \in {errors[i] : i \in 1..Len(errors)}

\* C10: a statement (a non-blank line in validate_fixed_sql.py) that does not
\* begin, once trimmed, with `INSERT INTO videos` has exactly one defect,
\* "Not an INSERT statement".
C10_NotInsertOnly ==
    /\ \A n \in Validated :
           ~StartsWith(Strip(statements[n]), INSERT_INTO_VIDEOS)
               => Tagged(errors, n) = <<Err(n, "Not an INSERT statement", <<>>)>>
    /\ \A n \in ValidatedLines :
           LET line == Strip(FileLines(content)[n]) IN
           (line # <<>> /\ ~StartsWith(line, INSERT_INTO_VIDEOS))
               => Tagged(errors, n) = <<Err(n, "Not an INSERT statement", <<>>)>>

C10_Witness ==
    /\ script = "validate_migration_improved"
    /\ pc = "done"
    /\ content = ExSelect
    /\ statements = <<ExSelect>>
    /\ ~Contains(ExSelect, VALUES_PAREN)
    /\ errors = <<Err(1, "Not an INSERT statement", <<>>)>>

\* the defects a statement has, read off its text: the messages of the
\* checks it fails
DefectsOf(s) ==
    IF ~StartsWith(s, INSERT_INTO_VIDEOS)
    THEN {"Not an INSERT statement"}
    ELSE (IF StartsWith(s, INSERT_INTO_VIDEOS_PAREN) THEN {}
          ELSE {"Invalid INSERT syntax"})
         \cup (IF Contains(s, VALUES_PAREN) THEN {}
               ELSE {"Missing VALUES clause"})
         \cup (IF CountChar(s, "(") = CountChar(s, ")") THEN {}
               ELSE {"Unbalanced parentheses"})
         \cup (IF Cardinality(UnescapedQuotes(s)) % 2 = 0 THEN {}
               ELSE {"Unbalanced quotes"})
         \cup (IF Cardinality(Occurrences(s, VALUES)) = 1 THEN {}
               ELSE {"Should have exactly one VALUES clause"})
         \cup (IF Contains(s, EMPTY_FIELDS)
               THEN {"Contains multiple empty fields"} ELSE {})

\* C11: the strict validator never stops early: the defects reported for a
\* validated statement are exactly the checks it fails (no failing check
\* hides another), every statement of the file is validated whatever the
\* earlier ones had, and the returned list holds the defects of the
\* statements of the file and nothing else.
C11_NeverStopsEarly ==
    /\ \A n \in Validated :
           Messages(Tagged(errors, n)) = DefectsOf(statements[n])
    /\ (script = "validate_migration_improved" /\ pc = "done")
           => /\ Validated = 1..Len(statements)
              /\ \A i \in 1..Len(errors) : errors[i].num \in Validated

C11_Witness ==
    /\ script = "validate_migration_improved"
    /\ pc = "done"
    /\ Len(statements) = 2
    /\ Cardinality(DefectsOf(statements[1])) >= 2
    /\ Len(Tagged(errors, 1)) >= 2
    /\ Tagged(errors, 2) # <<>>

\* the checks in the order in which the specification lists them
ListedOrder ==
    <<"Not an INSERT statement", "Invalid INSERT syntax",
      "Missing VALUES clause", "Unbalanced parentheses", "Unbalanced quotes",
      "Should have exactly one VALUES clause",
      "Contains multiple empty fields">>

\* the checks in the order in which they are reported
ReportedOrder ==
    <<"Not an INSERT statement", "Invalid INSERT syntax",
      "Missing VALUES clause", "Unbalanced parentheses", "Unbalanced quotes",
      "Contains multiple empty fields",
      "Should have exactly one VALUES clause">>

Rank(order, msg) == CHOOSE k \in 1..Len(order) : order[k] = msg

\* the findings of list are grouped by statement, in the order of the
\* statements, each tagged with the position of a statement that has the
\* defect, and within one statement they follow order
OrderedBy(list, order) ==
    /\ \A a \in 1..Len(list) :
           /\ list[a].num \in 1..Len(statements)
           /\ list[a].msg \in DefectsOf(statements[list[a].num])
    /\ \A a \in 1..Len(list) : \A b \in (a + 1)..Len(list) :
           \/ list[a].num < list[b].num
           \/ /\ list[a].num = list[b].num
              /\ Rank(order, list[a].msg) < Rank(order, list[b].msg)

\* C17 as stated: the defects of one statement are reported in the order
\* column list, `VALUES (`, parentheses, quotes, one VALUES, four empty
\* literals; the defects of statement i precede those of statement j > i;
\* each is tagged with the 1-based position of its statement.
C17_ListedOrder ==
    script = "validate_migration_improved" => OrderedBy(errors, ListedOrder)

\* C17, amended: as above with the last two checks the other way round:
\* the four-empty-literals defect is reported before the VALUES-count one.
C17_ReportedOrder ==
    script = "validate_migration_improved" => OrderedBy(errors, ReportedOrder)

C17_Witness ==
    /\ script = "validate_migration_improved"
    /\ pc = "done"
    /\ \E a \in 1..Len(errors) : \E b \in (a + 1)..Len(errors) :
           /\ errors[a].num = errors[b].num
           /\ errors[a].msg = "Contains multiple empty fields"
           /\ errors[b].msg = "Should have exactly one VALUES clause"
    /\ \E a \in 1..Len(errors) : \E b \in (a + 1)..Len(errors) :
           errors[a].num < errors[b].num

----------------------------------------------------------------------------
(* Properties of a script run (specification SpecRun).                     *)

\* C12: when the input file does not exist, no validator ends with an
\* uncaught error: validate_sql_file returns, and the list it returns has
\* exactly one entry, the "File not found" entry.
C12_MissingFile ==
    (~file_exists /\ pc # "open")
        => /\ pc \in {"done", "exited"}
           /\ errors = <<FileNotFound>>
           /\ (pc = "exited" => exit_code = 0)

\* C13: a validator script run on a file that is there ends with exit code
\* 0 exactly when validation found no defect, and with exit code 1 when any
\* statement or line failed validation.
C13_ExitCodes ==
    (pc = "exited" /\ file_exists)
        => /\ exit_code \in {0, 1}
           /\ exit_code = 0 <=> errors = <<>>

----------------------------------------------------------------------------
(* Properties of the batch executor (specification SpecBatches).           *)

\* the calls of execute_batch that reported failure
FailedCalls == {k \in 1..Len(executed) : ~executed[k].ok}

\* C14: the batch executor stops on the first failure: the k-th call of
\* execute_batch is for batch number k (increasing numbers, no batch twice),
\* a failed call is the last call ever made, and a run with a failed call
\* ends with exit code 1.
C14_StopOnFirstFailure ==
    /\ \A k \in 1..Len(executed) : executed[k].batch_num = k
    /\ \A k \in FailedCalls : k = Len(executed)
    /\ FailedCalls # {} => pc \in {"summary", "exited"}
    /\ (pc = "exited" /\ FailedCalls # {}) => exit_code = 1

C14_Witness ==
    /\ pc = "exited"
    /\ total_batches = 3
    /\ Len(executed) = 2
    /\ executed[1].ok
    /\ ~executed[2].ok
    /\ exit_code = 1

----------------------------------------------------------------------------
(* Properties of the REST migration (specification SpecRest).              *)

\* the number of batches the fetched rows make
VideoBatches == (Len(videos) + batch_size - 1) \div batch_size

\* the number of batches processed so far
BatchesDone == batch_start \div batch_size

\* C18: the REST migration sleeps once after every batch but the last:
\* when k of B batches have been processed it has slept k times if k < B and
\* B - 1 times if k = B, whatever became of the rows of those batches.
C18_SleepBetweenBatches ==
    (script = "migrate_videos_rest_api" /\ VideoBatches >= 1)
        => /\ BatchesDone <= VideoBatches
           /\ sleeps = IF BatchesDone < VideoBatches THEN BatchesDone
                       ELSE VideoBatches - 1
           /\ pc \in {"report", "exited"} => sleeps = VideoBatches - 1

C18_Witness ==
    /\ script = "migrate_videos_rest_api"
    /\ pc = "exited"
    /\ VideoBatches = 3
    /\ sleeps = 2
    /\ stats.failed > 0
    /\ stats.skipped > 0
    /\ videos[Len(videos)] = "rejected"

\* the rows of the batches processed so far
RowsDone ==
    {k \in 1..Len(videos) : k <= batch_start}

\* C22: successful + failed + skipped never exceeds total, and once migrate
\* has returned the three counters sum to total: each row of a processed
\* batch is counted in exactly one of them, inserted rows in successful, rows
\* that failed validation or insertion in failed, existing rows in skipped.
\* (The counters only grow inside a batch, so the bound at the end of each
\* batch is the bound at every point of it.)
C22_Accounting ==
    script = "migrate_videos_rest_api"
        => /\ stats.successful + stats.failed + stats.skipped <= stats.total
           /\ pc # "fetch" =>
                 /\ stats.total = Len(videos)
                 /\ stats.successful = NumberOf(RowsDone, {"inserted"})
                 /\ stats.skipped = NumberOf(RowsDone, {"exists"})
                 /\ stats.failed
                      = NumberOf(RowsDone, {"invalid", "rejected", "exception"})
           /\ pc \in {"report", "exited"} =>
                 stats.successful + stats.failed + stats.skipped = stats.total

C22_Witness ==
    /\ script = "migrate_videos_rest_api"
    /\ pc = "report"
    /\ stats.total = MaxVideos
    /\ batch_size = 2
    /\ stats.successful = 1
    /\ stats.skipped = 1
    /\ stats.failed = 2
    /\ videos[1] = "exists"
    /\ "invalid" \in {videos[k] : k \in 1..Len(videos)}

\* the rows an error entry has been appended for
RowsWithError == {errors[k].video_id : k \in 1..Len(errors)}

----------------------------------------------------------------------------
(* Properties of the SQL-file migration (specification SpecSqlFile).       *)

\* the statements of the valid rows among the first n, in source order
RECURSIVE ValidStatements(_)
ValidStatements(n) ==
    IF n = 0 THEN <<>>
    ELSE ValidStatements(n - 1)
         \o (IF ValidRow(videos[n])
             THEN <<generate_insert_statement(TransformRow(videos[n]))>>
             ELSE <<>>)

\* the text the output file held before the run: _write_batch only appends
\* to it, and no generated statement begins like it
OldContent ==
    IF Len(content) >= Len(OldFile)
       /\ SubSeq(content, 1, Len(OldFile)) = OldFile
    THEN OldFile ELSE <<>>

OldStatements == IF OldContent = <<>> THEN <<>> ELSE <<ExClean>>

Returned == pc \in {"report", "exited"}

\* C21: the statements migrate wrote one per line, each produced by
\* generate_insert_statement, are split by the backslash-aware splitter into
\* exactly those statements: as many as were generated, each equal to its
\* generated text
C21_GeneratedSplitsBack ==
    Returned =>
        SplitStatements("validate_migration_improved", content)
            = OldStatements \o ValidStatements(Len(videos))

\* what the run has added to the output file
Written == SubSeq(content, Len(OldContent) + 1, Len(content))

\* the rows the loop has read
RowsRead == stmt_num - 1

\* C24: whatever the batch size and the mix of valid and invalid rows, the
\* statements migrate has written followed by those it still holds are the
\* statements of the valid rows read so far, each once and in source order;
\* when it returns, the file holds the statement of every valid row, as
\* many as the successful count, and successful + failed is the number of
\* rows read.
C24_Batching ==
    script = "migrate_videos_to_d1"
        => /\ pc = "rows" =>
                 /\ Written \o LinesOf(statements)
                      = LinesOf(ValidStatements(RowsRead))
                 /\ Len(statements) < batch_size
           /\ Returned =>
                 /\ RowsRead = Len(videos)
                 /\ Written = LinesOf(ValidStatements(Len(videos)))
           /\ stats.successful = Len(ValidStatements(RowsRead))
           /\ stats.successful + stats.failed = RowsRead
           /\ Len(errors) = stats.failed

\* a full batch of two was flushed and a last, partial batch of one after it
C24_Witness ==
    /\ script = "migrate_videos_to_d1"
    /\ pc = "exited"
    /\ batch_size = 2
    /\ stats.successful = 3
    /\ videos[1] # videos[2]
    /\ Written = LinesOf(ValidStatements(3))

\* an invalid row between two valid ones, written onto a file that already
\* existed
C24_MixedRows ==
    /\ script = "migrate_videos_to_d1"
    /\ pc = "exited"
    /\ batch_size = 1
    /\ Len(videos) = 3
    /\ ValidRow(videos[1])
    /\ ~ValidRow(videos[2])
    /\ ValidRow(videos[3])
    /\ videos[1] # videos[3]
    /\ OldContent # <<>>
    /\ stats.successful = 2
    /\ exit_code = 1

----------------------------------------------------------------------------
(* Properties of the semicolon fixer (specification SpecSemicolons).       *)

\* the line is an INSERT line
InsertLine(line) == StartsWith(Strip(line), INSERT_INTO_VIDEOS)

\* what the fixer has written, line by line against its input
LinesFixed ==
    LET input == FileLines(content)
        written == FileLines(output) IN
    /\ Len(written) = Len(input)
    /\ \A n \in 1..Len(written) :
          /\ InsertLine(written[n]) => EndsWith(written[n], <<SEMI, NL>>)
          /\ written[n] =
                IF InsertLine(input[n]) /\ ~EndsWith(RStrip(input[n]), <<SEMI>>)
                THEN RStrip(input[n]) \o <<SEMI, NL>>
                ELSE RStrip(input[n]) \o <<NL>>

\* C25: when fix_sql_file has written its output, the output has as many
\* lines as the input; every output line that starts, after trimming, with
\* INSERT INTO videos ends with a semicolon; an INSERT line that lacked the
\* semicolon is the input line without its trailing whitespace plus `;`, and
\* every other line is the input line without its trailing whitespace; and
\* when the input was the fixer's own output, the output is that same text.
C25_SemicolonFixer ==
    /\ [](pc = "done" => LinesFixed)
    /\ [][(pc = "lines" /\ pc' = "done" /\ content = output)
            => output' = output]_vars

\* a first pass that added a semicolon to one line and left alone one that
\* had it
C25_Witness ==
    /\ script = "fix_sql_semicolons"
    /\ pc = "done"
    /\ content # output
    /\ Len(FileLines(content)) = 2
    /\ FileLines(content)[1] = <<" ">> \o INSERT_INTO_VIDEOS \o <<" ", NL>>
    /\ FileLines(content)[2] = INSERT_INTO_VIDEOS \o <<" ", SEMI>>
    /\ output = <<" ">> \o INSERT_INTO_VIDEOS \o <<SEMI, NL>>
                  \o INSERT_INTO_VIDEOS \o <<" ", SEMI, NL>>

\* a second pass over the output of the first
C25_Rerun ==
    /\ script = "fix_sql_semicolons"
    /\ pc = "done"
    /\ content = output
    /\ output = <<" ">> \o INSERT_INTO_VIDEOS \o <<SEMI, NL>>
                  \o INSERT_INTO_VIDEOS \o <<" ", SEMI, NL>>

----------------------------------------------------------------------------
(* Properties of the quote fixer (specification SpecQuotes).               *)

\* the statements of a text: from each INSERT OR IGNORE INTO videos to the
\* next, without the whitespace that follows
StatementsIn(text) ==
    LET starts == Occurrences(text, INSERT_OR_IGNORE_INTO_VIDEOS)
        n == Cardinality(starts)
        nth(k) == CHOOSE i \in starts : Cardinality({j \in starts : j <= i}) = k IN
    [k \in 1..n |->
        RStrip(SubSeq(text, nth(k), IF k = n THEN Len(text) ELSE nth(k + 1) - 1))]

\* the text of a statement before its VALUES (
BeforeValues(statement) ==
    SubSeq(statement, 1, SetMin(Occurrences(statement, VALUES_PAREN)) - 1)

\* the quote at i of the body of a literal is not escaped: it is not one of
\* a pair of adjacent quotes
LoneQuote(body, i) ==
    /\ body[i] = SQ
    /\ LET run == {j \in 1..i : \A k \in j..i : body[k] = SQ} IN
       Cardinality(run) % 2 = 1
    /\ i = Len(body) \/ body[i + 1] # SQ

\* a statement with one literal, the unescaped quotes inside it doubled
Doubled(statement) ==
    LET at == SetMin(Occurrences(statement, VALUES_PAREN))
        quotes == {i \in at..Len(statement) : statement[i] = SQ}
        open == SetMin(quotes)
        close == SetMax(quotes)
        body == SubSeq(statement, open + 1, close - 1) IN
    SubSeq(statement, 1, open)
    \o Flatten([i \in 1..Len(body) |->
                  IF LoneQuote(body, i) THEN <<SQ, SQ>> ELSE <<body[i]>>])
    \o SubSeq(statement, close, Len(statement))

\* C26: the quote fixer writes as many statements as it read; in each, the
\* text before VALUES ( is unchanged and of the VALUES part only the
\* unescaped quotes inside the literal are doubled, the two quotes that
\* delimit the literal staying single.
C26_QuoteFixer ==
    (script = "fix_sql_quotes" /\ pc = "done")
        => LET read == StatementsIn(content)
               written == StatementsIn(output) IN
           /\ Len(written) = Len(read)
           /\ \A k \in 1..Len(written) :
                 /\ BeforeValues(written[k]) = BeforeValues(read[k])
                 /\ written[k] = Doubled(read[k])

====
